---- MODULE Spec2Model ----
(***************************************************************************)
(* Model of the docuflow extraction pipeline:                              *)
(*   - src/engine/services/ocr_service.py : OllamaOCRClient (file          *)
(*     validation, the two OCR tiers and the hybrid fallback),             *)
(*   - src/engine/main_new.py : the /api/v1/extract handler, the Redis     *)
(*     result cache and the webhook-mode background task,                  *)
(*   - src/apify/test_level3_self_correction.py : the self-correction      *)
(*     cycle (parse, extract, validate, bounded by max_attempts).          *)
(*   - src/apify/test_level6/7 : the job table driven by webhook events,   *)
(*   - src/docuflow-engine/main.py : the /process handler and the          *)
(*     schema-driven extraction,                                           *)
(*   - src/engine/services/llm_service.py : JSON parsing and repair,       *)
(*   - src/textapify-agentic-actor/src/utils.py : the validators.          *)
(*                                                                         *)
(* A text is modelled by the attributes the code inspects: its length,     *)
(* the number of leading/trailing whitespace characters (len - ws is the   *)
(* length after strip()) and the number of matches of the garbage regex.   *)
(* MD5 is taken to be injective on the keys the model builds.              *)
(***************************************************************************)
EXTENDS Integers, Sequences, FiniteSets, TLC

VARIABLES
    \* ---- OllamaOCRClient.hybrid_ocr_process, one document at a time ----
    ocrPc,          \* "idle" | "tier1" | "tier2" | "done"
    ocrFile,        \* the file handed to hybrid_ocr_process
    ocrT1,          \* what tier 1 produced (environment), NoEnv before the call
    ocrResult,      \* the dictionary hybrid_ocr_process returns, NoResult before
    ocrCalls,       \* per-document call counters
    ocrOllama       \* the call_ollama_ocr invocation made for this document

ocrVars == <<ocrPc, ocrFile, ocrT1, ocrResult, ocrCalls, ocrOllama>>

VARIABLES
    \* ---- main_new.py: the extract endpoint, the Redis cache, background tasks ----
    redisUp,        \* redis_client is not None (decided when the module is imported)
    cache,          \* Redis: cache key -> stored result, NoEntry when absent or expired
    tasks,          \* background tasks scheduled by add_task and not yet run
    nreq,           \* number of requests received so far
    last,           \* what the most recent handler call or background task did
    ttlElapsed      \* an entry expired since the most recent call

engineVars == <<redisUp, cache, tasks, nreq, last, ttlElapsed>>

VARIABLES
    \* ---- test_level3_self_correction.py: the self-correction cycle ----
    loopPc,             \* "start" | "parse" | "extract" | "validate" | terminal
    cycle,              \* the loop variable of `for attempt in range(max_attempts)`
    attempts,           \* current_state["attempts"]
    validation_status,  \* current_state["validation_status"]
    structured_data,    \* current_state["structured_data"]
    nodeRuns            \* executions of the parse and extract nodes in this job

loopVars == <<loopPc, cycle, attempts, validation_status, structured_data, nodeRuns>>

VARIABLES
    \* ---- test_level6/7: the job table updated by Apify webhook events ----
    jobs,               \* apify_run_id -> the job record's status and its history
    nevents,            \* webhook events received so far
    lastEvent           \* what the most recent webhook handler call returned

jobVars == <<jobs, nevents, lastEvent>>

VARIABLES
    \* ---- main_new.py: send_webhook_notification, one notification ----
    whReceiver,         \* what the receiver does on each successive POST
    whResult            \* what the call returned and did

webhookVars == <<whReceiver, whResult>>

VARIABLES
    \* ---- docuflow-engine/main.py: the /process handler ----
    prEnv,              \* what the most recent call met (request, collaborators)
    prLast              \* what the most recent call did and returned

processVars == <<prEnv, prLast>>

VARIABLES
    \* ---- the handling of one LLM response (JSON parsing and repair) ----
    rjContent,          \* the response text, a sequence of tokens
    rjParts,            \* <<P1, J, P2>> when the response is an object in prose
    rjLlm,              \* llm_service.extract_json: what it returned or raised
    rjOcr,              \* OllamaOCRClient._repair_json: the string it returned
    rjSlice             \* docuflow-engine extract_data_with_schema: the parsed slice

repairVars == <<rjContent, rjParts, rjLlm, rjOcr, rjSlice>>

VARIABLES
    \* ---- the validators: utils.py and validate_math_logic, one record ----
    vlPc,               \* "idle" | "done"
    vlData,             \* the extracted record handed to the validators
    vlLogic,            \* validate_math_logic: the status it returned
    vlMath,             \* utils.validate_math: the errors it returned
    vlNull,             \* utils.validate_null_checks: the errors it returned
    vlHist              \* validations of the current record so far, and how many failed

validatorVars == <<vlPc, vlData, vlLogic, vlMath, vlNull, vlHist>>

VARIABLES
    \* ---- schema-driven extraction, one schema and one LLM answer ----
    sxPc,               \* "idle" | "engine" | "markdown"
    sxSchema,           \* the schema: a list of field descriptions
    sxInput,            \* the parsed LLM answer, or what the markdown contains
    sxRecord            \* the record returned, or the exception raised

schemaVars == <<sxPc, sxSchema, sxInput, sxRecord>>

VARIABLES
    \* ---- main_new.py: the job ids extract_document assigns ----
    now,                \* int(time.time()) at the server
    assigned            \* per request received: the job_id sent and the one used

idVars == <<now, assigned>>

VARIABLES
    \* ---- main_new.py: the coroutines of the server's event loop ----
    evRunning,          \* the job whose coroutine holds the event loop, 0 if none
    evStage             \* job -> where its request or background task stands

eventVars == <<evRunning, evStage>>

vars == <<ocrVars, engineVars, loopVars, jobVars, webhookVars, processVars,
          repairVars, validatorVars, schemaVars, idVars, eventVars>>

\* The components share no state: a step of one leaves the others alone.
ocrFrame == <<engineVars, loopVars, jobVars, webhookVars, processVars, repairVars,
    validatorVars, schemaVars, idVars, eventVars>>
engineFrame == <<ocrVars, loopVars, jobVars, webhookVars, processVars, repairVars,
    validatorVars, schemaVars, idVars, eventVars>>
loopFrame == <<ocrVars, engineVars, jobVars, webhookVars, processVars, repairVars,
    validatorVars, schemaVars, idVars, eventVars>>
jobFrame == <<ocrVars, engineVars, loopVars, webhookVars, processVars, repairVars,
    validatorVars, schemaVars, idVars, eventVars>>
webhookFrame == <<ocrVars, engineVars, loopVars, jobVars, processVars, repairVars,
    validatorVars, schemaVars, idVars, eventVars>>
processFrame == <<ocrVars, engineVars, loopVars, jobVars, webhookVars, repairVars,
    validatorVars, schemaVars, idVars, eventVars>>
validatorFrame == <<ocrVars, engineVars, loopVars, jobVars, webhookVars, processVars,
    repairVars, schemaVars, idVars, eventVars>>
schemaFrame == <<ocrVars, engineVars, loopVars, jobVars, webhookVars, processVars,
    repairVars, validatorVars, idVars, eventVars>>
idFrame == <<ocrVars, engineVars, loopVars, jobVars, webhookVars, processVars,
    repairVars, validatorVars, schemaVars, eventVars>>
eventFrame == <<ocrVars, engineVars, loopVars, jobVars, webhookVars, processVars,
    repairVars, validatorVars, schemaVars, idVars>>
repairFrame == <<ocrVars, engineVars, loopVars, jobVars, webhookVars, processVars,
    validatorVars, schemaVars, idVars, eventVars>>

----------------------------------------------------------------------------
(* Program constants of ocr_service.py *)

OcrMaxRetries == 2
MaxFileSizeMb == 10
MinImageWidth == 1000
MinEncodedLen == 30
GraniteMinLen == 100
DeepseekMinLen == 20
HighConfidenceLen == 200

BytesPerMb == 1024 * 1024
AllowedFileTypes == {"pdf", "png", "jpg", "jpeg"}
ImageTypes == {"png", "jpg", "jpeg"}

----------------------------------------------------------------------------
(* Inputs *)

NoFile == [exists |-> FALSE, size |-> 0, ext |-> "", pil |-> TRUE,
           imgOpen |-> "ok", width |-> 0]

\* Files: existence, size in bytes, extension, and for images whether PIL is
\* importable, how Image.open behaves and the pixel width.  Fields the code
\* never reads for a given file are held at one value.
FileSizes == {0, 21, 22, MaxFileSizeMb * BytesPerMb, MaxFileSizeMb * BytesPerMb + 1}

Files ==
    { f \in [exists : BOOLEAN, size : FileSizes, ext : {"pdf", "png", "exe"},
             pil : BOOLEAN, imgOpen : {"ok", "unidentified", "unreadable"},
             width : {MinImageWidth - 1, MinImageWidth}] :
        /\ (~f.exists) => (f.size = 22 /\ f.ext = "pdf")
        /\ (f.ext # "png" \/ f.size \notin {22, 21})
              => (f.pil /\ f.imgOpen = "ok" /\ f.width = MinImageWidth)
        /\ (~f.pil) => (f.imgOpen = "ok" /\ f.width = MinImageWidth - 1)
        /\ (f.imgOpen # "ok") => f.width = MinImageWidth }

NoText == [len |-> 0, ws |-> 0, bursts |-> 0]

Text(l, w, b) == [len |-> l, ws |-> w, bursts |-> b]

\* Markdown that DocumentConverter may export (tier 1).
T1Texts ==
    { Text(0, 0, 0), Text(99, 0, 0), Text(100, 0, 0), Text(101, 0, 0),
      Text(101, 0, 1), Text(150, 150, 0), Text(200, 0, 0), Text(201, 0, 0) }

\* Responses the OCR model may give (tier 2).
T2Texts ==
    { Text(0, 0, 0), Text(19, 0, 0), Text(20, 0, 0), Text(25, 6, 0),
      Text(10, 0, 1), Text(20, 0, 1), Text(30, 0, 3), Text(200, 0, 0),
      Text(201, 0, 0) }

NoEnv == [raises |-> FALSE, text |-> NoText]

\* Tier-1 behaviour: DocumentConverter.convert raises, or markdown is exported.
T1Envs == { [raises |-> TRUE, text |-> NoText] }
            \cup { [raises |-> FALSE, text |-> t] : t \in T1Texts }

\* Outcome of one requests.post in call_ollama_ocr: a 200 response whose JSON
\* body has a "response" key, a 404, a JSON object without that key, a JSON
\* body that is no container (null, a number), or an exception of requests.
PostOutcomes == {"ok", "not_found", "no_response_key", "null_body", "timeout",
                 "connection_error", "request_error"}

RetryablePost == {"timeout", "request_error"}

\* One outcome per attempt of the retry loop; the second is only consulted
\* after a retryable first one.
ApiSeqs ==
    { s \in [1..OcrMaxRetries -> PostOutcomes] :
        \A i \in 2..OcrMaxRetries :
            (\E j \in 1..(i-1) : s[j] \notin RetryablePost) => s[i] = "ok" }

----------------------------------------------------------------------------
(* OllamaOCRClient.validate_file: "ok", or the FileValidationError raised *)

validate_file(f) ==
    IF ~f.exists THEN "not_found"
    ELSE IF f.size = 0 THEN "empty"
    ELSE IF f.size > MaxFileSizeMb * BytesPerMb THEN "too_large"
    ELSE IF f.ext \notin AllowedFileTypes THEN "type_not_allowed"
    ELSE IF f.ext \in ImageTypes THEN
        IF ~f.pil THEN "ok"                         \* ImportError: skipped
        ELSE IF f.imgOpen = "unidentified" THEN "ok" \* warning only
        ELSE IF f.imgOpen = "unreadable" THEN "image_validation_failed"
        ELSE IF f.width < MinImageWidth THEN "width_too_small"
        ELSE "ok"
    ELSE "ok"

\* len(base64.b64encode(content)) for a file of n bytes
B64Len(n) == 4 * ((n + 2) \div 3)

\* OllamaOCRClient.encode_file_to_base64: "ok" or the error raised
encode_file_to_base64(f) ==
    IF ~f.exists THEN "encoding_failed"
    ELSE IF f.size = 0 THEN "encoding_failed"
    ELSE IF B64Len(f.size) < MinEncodedLen THEN "encoding_failed"
    ELSE "ok"

----------------------------------------------------------------------------
(* OllamaOCRClient.call_ollama_ocr: the retry loop over requests.post.     *)
(* Returns whether a response was returned, the OCRError otherwise, the    *)
(* number of POSTs sent and the timeout of the last POST.                  *)

RECURSIVE ollama_attempt(_, _)
ollama_attempt(api, attempt) ==
    LET timeout == IF attempt = 0 THEN 45 ELSE 60
        o == api[attempt + 1]
        final == ~(attempt < OcrMaxRetries - 1)
    IN  IF attempt >= OcrMaxRetries
        THEN [ok |-> FALSE, err |-> "all_retries_failed", posts |-> 0, timeout |-> 0]
        ELSE IF o = "ok"
        THEN [ok |-> TRUE, err |-> "", posts |-> 1, timeout |-> timeout]
        ELSE IF o = "not_found"
        THEN [ok |-> FALSE, err |-> "model_not_found", posts |-> 1, timeout |-> timeout]
        ELSE IF o = "no_response_key"
        THEN [ok |-> FALSE, err |-> "invalid_response", posts |-> 1, timeout |-> timeout]
        ELSE IF o = "null_body"
        THEN \* `"response" not in result` raises TypeError, which no handler catches
             [ok |-> FALSE, err |-> "TypeError", posts |-> 1, timeout |-> timeout]
        ELSE IF o = "connection_error"
        THEN [ok |-> FALSE, err |-> "cannot_connect", posts |-> 1, timeout |-> timeout]
        ELSE IF final
        THEN [ok |-> FALSE,
              err |-> IF o = "timeout" THEN "timed_out" ELSE "request_failed",
              posts |-> 1, timeout |-> timeout]
        ELSE LET r == ollama_attempt(api, attempt + 1)
             IN  [r EXCEPT !.posts = r.posts + 1]

call_ollama_ocr(api) == ollama_attempt(api, 0)

\* No call_ollama_ocr invocation yet; otherwise the outcomes the POSTs met
\* and what the invocation returned or raised.
NoOllama == [called |-> FALSE, api |-> <<>>, text |-> NoText,
             ret |-> [ok |-> FALSE, err |-> "", posts |-> 0, timeout |-> 0]]

----------------------------------------------------------------------------
(* The two tiers.  Each returns: ok, the text and engine name on success,  *)
(* the chain of error reasons on failure (every exception is re-raised     *)
(* as OCRError carrying str(e)), and which calls were made.                *)

TierResult(ok, text, engine, err, validates, converts, ollamas, posts) ==
    [ok |-> ok, text |-> text, engine |-> engine, err |-> err,
     validates |-> validates, converts |-> converts, ollamas |-> ollamas,
     posts |-> posts]

process_with_granite_docling_high(f, t1) ==
    LET v == validate_file(f) IN
    IF v # "ok"
    THEN TierResult(FALSE, NoText, "none", <<"granite_failed", v>>, 1, 0, 0, 0)
    ELSE IF t1.raises
    THEN TierResult(FALSE, NoText, "none", <<"granite_failed", "convert_raised">>, 1, 1, 0, 0)
    ELSE IF t1.text.len > HighConfidenceLen
    THEN TierResult(TRUE, t1.text, "granite-docling", <<>>, 1, 1, 0, 0)
    ELSE TierResult(FALSE, NoText, "none",
                    <<"granite_failed", "granite_failed", "insufficient_content">>, 1, 1, 0, 0)

process_with_granite_docling_novalidate(f, t1) ==
    IF t1.raises
    THEN TierResult(FALSE, NoText, "none", <<"granite_failed", "convert_raised">>, 0, 1, 0, 0)
    ELSE IF t1.text.len > GraniteMinLen
    THEN TierResult(TRUE, t1.text, "granite-docling", <<>>, 0, 1, 0, 0)
    ELSE TierResult(FALSE, NoText, "none",
                    <<"granite_failed", "granite_failed", "insufficient_content">>, 0, 1, 0, 0)

process_with_granite_docling(f, t1) ==
    LET v == validate_file(f) IN
    IF v # "ok"
    THEN TierResult(FALSE, NoText, "none", <<"granite_failed", v>>, 1, 0, 0, 0)
    ELSE IF t1.raises
    THEN TierResult(FALSE, NoText, "none", <<"granite_failed", "convert_raised">>, 1, 1, 0, 0)
    ELSE IF t1.text.len > GraniteMinLen
    THEN TierResult(TRUE, t1.text, "granite-docling", <<>>, 1, 1, 0, 0)
    ELSE \* the OCRError raised in the try block is caught and wrapped again
         TierResult(FALSE, NoText, "none",
                    <<"granite_failed", "granite_failed", "insufficient_content">>, 1, 1, 0, 0)

\* Variant that applies the garbage rule before the emptiness rule.
process_with_deepseek_ocr_garbagefirst(f, api, text) ==
    LET v == validate_file(f)
        e == encode_file_to_base64(f)
        c == call_ollama_ocr(api)
    IN
    IF v # "ok"
    THEN TierResult(FALSE, NoText, "none", <<"deepseek_failed", v>>, 1, 0, 0, 0)
    ELSE IF e # "ok"
    THEN TierResult(FALSE, NoText, "none", <<"deepseek_failed", e>>, 1, 0, 0, 0)
    ELSE IF ~c.ok
    THEN TierResult(FALSE, NoText, "none", <<"deepseek_failed", c.err>>, 1, 0, 1, c.posts)
    ELSE IF text.bursts > 0
    THEN TierResult(FALSE, NoText, "none",
                    <<"deepseek_failed", "garbage_characters">>, 1, 0, 1, c.posts)
    ELSE IF text.len - text.ws < DeepseekMinLen
    THEN TierResult(FALSE, NoText, "none",
                    <<"deepseek_failed", "insufficient_content">>, 1, 0, 1, c.posts)
    ELSE TierResult(TRUE, text, "deepseek-ocr", <<>>, 1, 0, 1, c.posts)

process_with_deepseek_ocr(f, api, text) ==
    LET v == validate_file(f)
        e == encode_file_to_base64(f)
        c == call_ollama_ocr(api)
    IN
    IF v # "ok"
    THEN TierResult(FALSE, NoText, "none", <<"deepseek_failed", v>>, 1, 0, 0, 0)
    ELSE IF e # "ok"
    THEN TierResult(FALSE, NoText, "none", <<"deepseek_failed", e>>, 1, 0, 0, 0)
    ELSE IF ~c.ok
    THEN TierResult(FALSE, NoText, "none", <<"deepseek_failed", c.err>>, 1, 0, 1, c.posts)
    ELSE IF text.len - text.ws < DeepseekMinLen
    THEN TierResult(FALSE, NoText, "none",
                    <<"deepseek_failed", "insufficient_content">>, 1, 0, 1, c.posts)
    ELSE IF text.bursts > 0
    THEN TierResult(FALSE, NoText, "none",
                    <<"deepseek_failed", "garbage_characters">>, 1, 0, 1, c.posts)
    ELSE TierResult(TRUE, text, "deepseek-ocr", <<>>, 1, 0, 1, c.posts)

----------------------------------------------------------------------------
(* OllamaOCRClient.hybrid_ocr_process *)

NoResult == [status |-> "none", markdown |-> NoText, engine_used |-> "",
             confidence |-> "", error |-> <<>>]

OcrSuccess(t) ==
    [status |-> "success", markdown |-> t.text, engine_used |-> t.engine,
     confidence |-> IF t.text.len > HighConfidenceLen THEN "high" ELSE "medium",
     error |-> <<>>]

OcrError(err) ==
    [status |-> "error", markdown |-> NoText, engine_used |-> "none",
     confidence |-> "", error |-> err]

NoCalls == [granite |-> 0, deepseek |-> 0, validate |-> 0, convert |-> 0,
            ollama |-> 0, posts |-> 0]

AddCalls(c, tier, t) ==
    [granite |-> c.granite + (IF tier = 1 THEN 1 ELSE 0),
     deepseek |-> c.deepseek + (IF tier = 2 THEN 1 ELSE 0),
     validate |-> c.validate + t.validates,
     convert |-> c.convert + t.converts,
     ollama |-> c.ollama + t.ollamas,
     posts |-> c.posts + t.posts]

\* The two try blocks of hybrid_ocr_process, given what each tier does when
\* it is called: g for attempt 1, d for attempt 2.
hybrid_attempts(g, d) ==
        IF g.ok
        THEN [result |-> OcrSuccess(g), calls |-> AddCalls(NoCalls, 1, g),
              failed |-> {}]
        ELSE [result |-> IF d.ok THEN OcrSuccess(d) ELSE OcrError(d.err),
              calls |-> AddCalls(AddCalls(NoCalls, 1, g), 2, d),
              failed |-> IF d.ok THEN {1} ELSE {1, 2}]

\* The whole function: the returned dictionary and the calls it made.
hybrid_ocr_process(f, t1, api, text) ==
    hybrid_attempts(process_with_granite_docling(f, t1),
                    process_with_deepseek_ocr(f, api, text))

\* hybrid_ocr_process is entered with a file.
OcrStart(f) ==
    /\ ocrPc = "idle"
    /\ ocrPc' = "tier1"
    /\ ocrFile' = f
    /\ ocrT1' = NoEnv
    /\ ocrResult' = NoResult
    /\ ocrCalls' = NoCalls
    /\ ocrOllama' = NoOllama
    /\ UNCHANGED ocrFrame

OcrTier1_nofallback(t1) ==
    /\ ocrPc = "tier1"
    /\ LET g == process_with_granite_docling(ocrFile, t1) IN
        /\ ocrT1' = t1
        /\ ocrCalls' = AddCalls(ocrCalls, 1, g)
        /\ ocrResult' = IF g.ok THEN OcrSuccess(g) ELSE OcrError(g.err)
        /\ ocrPc' = "done"
    /\ UNCHANGED <<ocrFile, ocrOllama>>
    /\ UNCHANGED ocrFrame

\* Attempt 1: process_with_granite_docling; success returns at once.
OcrTier1(t1) ==
    /\ ocrPc = "tier1"
    /\ LET g == process_with_granite_docling(ocrFile, t1) IN
        /\ ocrT1' = t1
        /\ ocrCalls' = AddCalls(ocrCalls, 1, g)
        /\ IF g.ok
           THEN ocrResult' = OcrSuccess(g) /\ ocrPc' = "done"
           ELSE ocrResult' = NoResult /\ ocrPc' = "tier2"
    /\ UNCHANGED <<ocrFile, ocrOllama>>
    /\ UNCHANGED ocrFrame

\* Attempt 2: process_with_deepseek_ocr; its OCRError becomes the error result.
OcrTier2(api, text) ==
    /\ ocrPc = "tier2"
    /\ LET d == process_with_deepseek_ocr(ocrFile, api, text) IN
        /\ ocrCalls' = AddCalls(ocrCalls, 2, d)
        /\ ocrResult' = IF d.ok THEN OcrSuccess(d) ELSE OcrError(d.err)
        /\ ocrOllama' = IF d.ollamas = 1
                        THEN [called |-> TRUE, api |-> api,
                              text |-> IF call_ollama_ocr(api).ok THEN text ELSE NoText,
                              ret |-> call_ollama_ocr(api)]
                        ELSE NoOllama
    /\ ocrPc' = "done"
    /\ UNCHANGED <<ocrFile, ocrT1>>
    /\ UNCHANGED ocrFrame

\* The caller takes the result; the client is ready for the next document.
OcrFinish ==
    /\ ocrPc = "done"
    /\ ocrPc' = "idle"
    /\ ocrFile' = NoFile
    /\ ocrT1' = NoEnv
    /\ ocrResult' = NoResult
    /\ ocrCalls' = NoCalls
    /\ ocrOllama' = NoOllama
    /\ UNCHANGED ocrFrame

OcrNext ==
    \/ \E f \in Files : OcrStart(f)
    \/ \E t1 \in T1Envs : OcrTier1(t1)
    \/ \E api \in ApiSeqs, text \in T2Texts : OcrTier2(api, text)
    \/ OcrFinish

----------------------------------------------------------------------------
(* main_new.py *)

MaxRequests == 2

\* document_url and schema_type are free strings, kept as character
\* sequences so that the f-string of generate_cache_key is a concatenation.
Urls == { <<"u">>, <<"u", ":", "i">> }
SchemaTypes == { <<"g">>, <<"i", ":", "g">> }

\* The (document_url, schema_type) pairs that requests carry.
Targets ==
    { <<u, t>> \in Urls \X SchemaTypes : ~(Len(u) = 3 /\ Len(t) = 3) }

\* schema_json: absent, a JSON list of field descriptions, or not JSON at all.
NoSchema == "none"
SchemaJsons == {NoSchema, "fields", "bad"}

NoWebhook == "none"
Webhooks == {NoWebhook, "hook"}

Requests ==
    { r \in [document_url : Urls, schema_type : SchemaTypes,
             schema_json : SchemaJsons, webhook_url : Webhooks] :
        <<r.document_url, r.schema_type>> \in Targets }

\* generate_cache_key: md5 of f"{document_url}:{schema_type}"
generate_cache_key(document_url, schema_type) ==
    document_url \o <<":">> \o schema_type

CacheKeys == { generate_cache_key(p[1], p[2]) : p \in Targets }

NoData == [document_url |-> <<>>, schema_type |-> <<>>,
           schema_json |-> NoSchema, shape |-> "none"]

NoEntry == [data |-> NoData, ocr_engine_used |-> ""]

\* What the collaborators do during one run of process_document_sync:
\* the download, the size of the downloaded content, both OCR tiers and
\* the LLM (a JSON object, some other JSON value, or an error).
ApiAll(o) == [i \in 1..OcrMaxRetries |-> o]

Tier1Accepts == [t1 |-> [raises |-> FALSE, text |-> Text(201, 0, 0)],
                 api |-> ApiAll("ok"), text |-> NoText]

Tier1Blank == [t1 |-> [raises |-> FALSE, text |-> Text(150, 150, 0)],
               api |-> ApiAll("ok"), text |-> NoText]

Tier2Accepts == [t1 |-> [raises |-> TRUE, text |-> NoText],
                 api |-> ApiAll("ok"), text |-> Text(200, 0, 0)]

BothTiersFail == [t1 |-> [raises |-> FALSE, text |-> Text(100, 0, 0)],
                  api |-> ApiAll("timeout"), text |-> NoText]

RunEnv(dl, size, ocr, llm) == [download |-> dl, size |-> size, ocr |-> ocr, llm |-> llm]

RunEnvs ==
    { RunEnv("fail", 0, BothTiersFail, "error"),
      RunEnv("ok", 0, Tier1Accepts, "dict"),
      RunEnv("ok", 22, BothTiersFail, "dict"),
      RunEnv("ok", 22, Tier1Accepts, "dict"),
      RunEnv("ok", 22, Tier1Accepts, "nondict"),
      RunEnv("ok", 22, Tier1Accepts, "error"),
      RunEnv("ok", 22, Tier1Blank, "dict"),
      RunEnv("ok", 22, Tier2Accepts, "dict") }

get_cached_result_skipped(cache_key, readOk) == NoEntry

\* Variant in which a failing read is not turned into a miss.
get_cached_result_unguarded(cache_key, readOk) ==
    IF ~redisUp THEN NoEntry ELSE cache[cache_key]

\* get_cached_result: None when Redis is disabled or the read raises
get_cached_result(cache_key, readOk) ==
    IF ~redisUp THEN NoEntry
    ELSE IF ~readOk THEN NoEntry
    ELSE cache[cache_key]

set_cached_result_dropped(cache_key, result, writeOk) == cache

\* set_cached_result: the cache after the call
set_cached_result(cache_key, result, writeOk) ==
    IF ~redisUp THEN cache
    ELSE IF ~writeOk THEN cache
    ELSE [cache EXCEPT ![cache_key] = result]

\* send_webhook_notification(webhook_url, payload, max_retries = 3)
WebhookMaxRetries == 3
WebhookOk == 200

\* What a POST meets: a response with a status, or an exception (network
\* error, timeout).
Response(status) == [raised |-> FALSE, status |-> status]
NetworkError == [raised |-> TRUE, status |-> 0]
PostResults == {Response(200), Response(204), Response(500), NetworkError}

\* One more outcome than the default budget, so that a further attempt
\* would have something to meet.
Receivers == [1..(WebhookMaxRetries + 1) -> PostResults]

NoDelivery == [delivered |-> FALSE, posts |-> 0, sleeps |-> <<>>]

\* The loop `for attempt in range(max_retries)`: True on status 200; any
\* other status goes to the next attempt at once; an exception sleeps
\* 2 ** attempt seconds unless it was the last attempt.
RECURSIVE webhook_attempt(_, _, _)
webhook_attempt(receiver, attempt, max_retries) ==
    LET o == receiver[attempt + 1]
        rest == webhook_attempt(receiver, attempt + 1, max_retries)
    IN  IF attempt >= max_retries
        THEN NoDelivery
        ELSE IF ~o.raised /\ o.status = WebhookOk
        THEN [delivered |-> TRUE, posts |-> 1, sleeps |-> <<>>]
        ELSE [delivered |-> rest.delivered,
              posts |-> rest.posts + 1,
              sleeps |-> (IF o.raised /\ attempt < max_retries - 1
                          THEN <<2 ^ attempt>> ELSE <<>>) \o rest.sleeps]

send_webhook_notification_extra(receiver) ==
    webhook_attempt(receiver, 0, WebhookMaxRetries + 1)

send_webhook_notification(receiver) ==
    webhook_attempt(receiver, 0, WebhookMaxRetries)

\* One notification is sent to a receiver.
SendWebhook(receiver) ==
    /\ whReceiver' = receiver
    /\ whResult' = send_webhook_notification(receiver)
    /\ UNCHANGED webhookFrame

WebhookNext == \E receiver \in Receivers : SendWebhook(receiver)

\* The downloaded content is written to a NamedTemporaryFile(suffix=".pdf").
TempFile(env) ==
    [exists |-> TRUE, size |-> env.size, ext |-> "pdf", pil |-> TRUE,
     imgOpen |-> "ok", width |-> MinImageWidth]

process_document_with_hybrid_ocr_noraise(env) ==
    [raised |-> FALSE,
     ocr |-> hybrid_ocr_process(TempFile(env), env.ocr.t1, env.ocr.api, env.ocr.text)]

\* The check of the returned dictionary: status "error" raises OCRError.
raise_on_error(h) == [raised |-> h.result.status = "error", ocr |-> h]

\* process_document_with_hybrid_ocr: the result is returned unless its status
\* is "error", in which case OCRError is raised.
process_document_with_hybrid_ocr(env) ==
    raise_on_error(
        hybrid_ocr_process(TempFile(env), env.ocr.t1, env.ocr.api, env.ocr.text))

NoOcr == [result |-> NoResult, calls |-> NoCalls, failed |-> {}]

\* extract_data_from_markdown: the custom-schema branch extracts with regular
\* expressions, the other branch calls extract_json, which skips the LLM when
\* the stripped markdown is shorter than 20 characters.
extract_data_from_markdown(markdown, custom_schema, env) ==
    IF custom_schema # NoSchema
    THEN [raised |-> FALSE, shape |-> "dict", llm |-> 0]
    ELSE IF markdown.len - markdown.ws < 20
    THEN [raised |-> FALSE, shape |-> "dict", llm |-> 0]
    ELSE IF env.llm = "error"
    THEN [raised |-> TRUE, shape |-> "none", llm |-> 1]
    ELSE [raised |-> FALSE, shape |-> env.llm, llm |-> 1]

\* What one run of process_document_sync did.  validate counts the calls of
\* validate_extraction_result, which main_new.py imports and never calls.
RunResult(status, data, engine, ocr, dl, ex, llm, wrote, tmp) ==
    [status |-> status, data |-> data, engine |-> engine, ocr |-> ocr,
     download |-> dl, extract |-> ex, validate |-> 0, llm |-> llm,
     wrote |-> wrote, temp |-> tmp]

\* Variant in which the HTTPException for an invalid schema_json leaves the
\* temporary file behind.
process_after_ocr_leak(req, env, o) ==
    LET x == extract_data_from_markdown(o.ocr.result.markdown, req.schema_json, env)
        d == [document_url |-> req.document_url,
              schema_type |-> req.schema_type, schema_json |-> req.schema_json,
              shape |-> x.shape]
    IN  IF env.download = "fail"
        THEN RunResult("error", NoData, "", NoOcr, 1, 0, 0, FALSE, "none")
        ELSE IF o.raised
        THEN RunResult("error", NoData, "", o.ocr, 1, 0, 0, FALSE, "deleted")
        ELSE IF req.schema_json = "bad"
        THEN RunResult("error", NoData, "", o.ocr, 1, 0, 0, FALSE, "kept")
        ELSE IF x.raised
        THEN RunResult("error", NoData, "", o.ocr, 1, 1, x.llm, FALSE, "deleted")
        ELSE RunResult(IF x.shape = "dict" THEN "success" ELSE "error",
                       d, o.ocr.result.engine_used, o.ocr, 1, 1, x.llm, TRUE, "deleted")

\* process_document_sync, up to the point where the cache is written:
\* download, temporary file, OCR (its outcome is o), schema_json parsing,
\* extraction, and the ExtractResponse built after the cache write (a data
\* value that is not a JSON object fails the response model's validation).
process_after_ocr(req, env, o) ==
    LET x == extract_data_from_markdown(o.ocr.result.markdown, req.schema_json, env)
        d == [document_url |-> req.document_url,
              schema_type |-> req.schema_type, schema_json |-> req.schema_json,
              shape |-> x.shape]
    IN  IF env.download = "fail"
        THEN RunResult("error", NoData, "", NoOcr, 1, 0, 0, FALSE, "none")
        ELSE IF o.raised
        THEN RunResult("error", NoData, "", o.ocr, 1, 0, 0, FALSE, "deleted")
        ELSE IF req.schema_json = "bad"
        THEN RunResult("error", NoData, "", o.ocr, 1, 0, 0, FALSE, "deleted")
        ELSE IF x.raised
        THEN RunResult("error", NoData, "", o.ocr, 1, 1, x.llm, FALSE, "deleted")
        ELSE RunResult(IF x.shape = "dict" THEN "success" ELSE "error",
                       d, o.ocr.result.engine_used, o.ocr, 1, 1, x.llm, TRUE, "deleted")

process_document_sync(job, req, env) ==
    process_after_ocr(req, env, process_document_with_hybrid_ocr(env))

NoRun == RunResult("none", NoData, "", NoOcr, 0, 0, 0, FALSE, "none")

CacheAfter(cache_key, r, writeOk) ==
    IF r.wrote
    THEN set_cached_result(cache_key,
                           [data |-> r.data, ocr_engine_used |-> r.engine], writeOk)
    ELSE cache

WriteOutcome(r, writeOk) ==
    IF ~r.wrote THEN "none"
    ELSE IF ~redisUp THEN "disabled"
    ELSE IF ~writeOk THEN "error"
    ELSE "ok"

ReadOutcome(cache_key, readOk) ==
    IF ~redisUp THEN "disabled"
    ELSE IF ~readOk THEN "error"
    ELSE IF cache[cache_key] = NoEntry THEN "miss"
    ELSE "hit"

NoLast ==
    [kind |-> "none", job |-> 0, req |-> <<>>, key |-> <<>>, read |-> "none",
     served |-> "none", status |-> "none", data |-> NoData, engine |-> "",
     run |-> NoRun, write |-> "none", payload |-> "none", sent |-> <<>>,
     webhook |-> NoDelivery]

\* Redis commands can raise only when Redis is connected; a failing read is
\* told apart from a miss only when there is an entry to be read, a failing
\* write only when something is written.
ReadOutcomes(cache_key) ==
    IF redisUp /\ cache[cache_key] # NoEntry THEN BOOLEAN ELSE {TRUE}

WriteOutcomes(r) == IF redisUp /\ r.wrote THEN BOOLEAN ELSE {TRUE}

\* POST /api/v1/extract.  The handler and process_document_sync contain no
\* suspension point, so one call runs to completion on the event loop.
extract_document(req) ==
    LET job == nreq + 1
        cache_key == generate_cache_key(req.document_url, req.schema_type)
    IN  /\ nreq < MaxRequests
        /\ nreq' = job
        /\ ttlElapsed' = FALSE
        /\ UNCHANGED redisUp
        /\ UNCHANGED engineFrame
        /\ \E readOk \in ReadOutcomes(cache_key) :
            LET cached_result == get_cached_result(cache_key, readOk)
                rec == [kind |-> "handler", job |-> job, req |-> req,
                        key |-> cache_key,
                        read |-> ReadOutcome(cache_key, readOk), served |-> "none",
                        status |-> "none", data |-> NoData, engine |-> "",
                        run |-> NoRun, write |-> "none", payload |-> "none", sent |-> <<>>,
                        webhook |-> NoDelivery]
            IN  IF cached_result # NoEntry
                THEN \* ExtractResponse(data=...) rejects a value that is not a dict
                     /\ last' = [rec EXCEPT
                              !.served = "cache",
                              !.status = IF cached_result.data.shape = "dict"
                                         THEN "success" ELSE "error",
                              !.data = IF cached_result.data.shape = "dict"
                                       THEN cached_result.data ELSE NoData,
                              !.engine = IF cached_result.data.shape = "dict"
                                         THEN cached_result.ocr_engine_used ELSE ""]
                     /\ UNCHANGED <<cache, tasks>>
                ELSE IF req.webhook_url # NoWebhook
                THEN /\ tasks' = tasks \cup
                                   {[job |-> job, req |-> req, key |-> cache_key]}
                     /\ last' = [rec EXCEPT !.served = "scheduled",
                                            !.status = "processing"]
                     /\ UNCHANGED cache
                ELSE \E env \in RunEnvs :
                     \E r \in {process_document_sync(job, req, env)} :
                     \E writeOk \in WriteOutcomes(r) :
                        /\ cache' = CacheAfter(cache_key, r, writeOk)
                        /\ last' = [rec EXCEPT
                              !.served = "computed",
                              !.status = r.status,
                              !.data = IF r.status = "success" THEN r.data ELSE NoData,
                              !.engine = IF r.status = "success" THEN r.engine ELSE "",
                              !.run = r,
                              !.write = WriteOutcome(r, writeOk)]
                        /\ UNCHANGED tasks

\* The receivers a background task's notification may meet.
HookReceivers ==
    { [i \in 1..(WebhookMaxRetries + 1) |-> o] : o \in {Response(WebhookOk), NetworkError} }

notify_outcome_fatal(r, w) ==
    IF r.status = "success" /\ w.delivered
    THEN [status |-> "success", payload |-> "success", sent |-> <<"success">>]
    ELSE [status |-> "error", payload |-> "error", sent |-> <<"error">>]

\* Variant in which a success payload that could not be delivered is
\* followed by the error payload.
notify_outcome_both(r, w) ==
    IF r.status = "success"
    THEN [status |-> "success", payload |-> "success",
          sent |-> IF w.delivered THEN <<"success">> ELSE <<"success", "error">>]
    ELSE [status |-> "error", payload |-> "error", sent |-> <<"error">>]

\* process_document_async after process_document_sync: the success payload
\* is sent when it returned, the error payload when it raised; the value
\* send_webhook_notification returns (w) is only logged.  sent lists the
\* payloads handed to send_webhook_notification, in order.
notify_outcome(r, w) ==
    IF r.status = "success"
    THEN [status |-> "success", payload |-> "success", sent |-> <<"success">>]
    ELSE [status |-> "error", payload |-> "error", sent |-> <<"error">>]

\* process_document_async, run by the server after the response was sent.
process_document_async(t) ==
    /\ t \in tasks
    /\ tasks' = tasks \ {t}
    /\ ttlElapsed' = FALSE
    /\ UNCHANGED <<redisUp, nreq>>
    /\ UNCHANGED engineFrame
    /\ \E env \in RunEnvs :
        \E r \in {process_document_sync(t.job, t.req, env)} :
        \E writeOk \in WriteOutcomes(r) :
        \E receiver \in HookReceivers :
        \E w \in {send_webhook_notification(receiver)} :
        \E n \in {notify_outcome(r, w)} :
            /\ cache' = CacheAfter(t.key, r, writeOk)
            /\ last' = [kind |-> "task", job |-> t.job, req |-> t.req, key |-> t.key,
                        read |-> "none", served |-> "computed", status |-> n.status,
                        data |-> IF r.status = "success" THEN r.data ELSE NoData,
                        engine |-> IF r.status = "success" THEN r.engine ELSE "",
                        run |-> r, write |-> WriteOutcome(r, writeOk),
                        payload |-> n.payload, sent |-> n.sent, webhook |-> w]

\* Redis drops an entry when its TTL (setex) has elapsed.
Expire(cache_key) ==
    /\ cache[cache_key] # NoEntry
    /\ cache' = [cache EXCEPT ![cache_key] = NoEntry]
    /\ ttlElapsed' = TRUE
    /\ UNCHANGED <<redisUp, tasks, nreq, last>>
    /\ UNCHANGED engineFrame

EngineNext ==
    \/ \E req \in Requests : extract_document(req)
    \/ \E t \in tasks : process_document_async(t)
    \/ \E k \in CacheKeys : Expire(k)

----------------------------------------------------------------------------
(* test_level3_self_correction.py: test_langgraph_workflow_concept *)

max_attempts == 3
ToleranceCents == 1

\* A field string as the validate node reads it: the regular expression
\* [\d\.]+ finds an amount, finds nothing (0.0 is used), or finds digits and
\* dots that float() rejects.  Amounts are in cents.
Amount(c) == [kind |-> "amount", cents |-> c]
NoDigits == [kind |-> "nodigits", cents |-> 0]
Malformed == [kind |-> "malformed", cents |-> 0]

Item(d, c) == [description |-> d, amount |-> c]

Extraction(total, tax, items) == [Total |-> total, Tax |-> tax, line_items |-> items]

NoExtraction == Extraction(NoDigits, NoDigits, <<>>)

\* Records the extract node may produce; the record the mock returns is
\* Extraction(Amount(50000), Amount(1000), <<Item("Item", 10000)>>).
Totals == { Amount(50000), Amount(11000), Amount(10528), NoDigits, Malformed }
Taxes == { Amount(1000), Amount(528), NoDigits }
ItemLists == { <<>>, <<Item("Item", 10000)>>,
               <<Item("Item 1", 10000), Item("Tax", 528)>> }

Extractions ==
    { Extraction(total, tax, items) :
        total \in Totals, tax \in Taxes, items \in ItemLists }

RECURSIVE Subtotal(_)
Subtotal(items) ==
    IF items = <<>> THEN 0
    ELSE (IF Head(items).description # "Tax" THEN Head(items).amount ELSE 0)
         + Subtotal(Tail(items))

Abs(x) == IF x < 0 THEN -x ELSE x

\* `abs(a - b) > tolerance` as Python evaluates it on doubles, for amounts of
\* x and y cents and a tolerance of tol cents.  Away from the boundary the
\* rounding error (about 1e-14) cannot change the answer.  A difference of
\* exactly tol cents is decided by the rounding of the operands; for the
\* amounts used here: abs(100.01 - 100.0) and abs(110.01 - 110.0) are
\* 0.010000000000005116 > 0.01, abs(0.01 - 0.0) is 0.01, and
\* abs(100.05 - 100.0) is 0.04999999999999716 < 0.05.
RoundsAbove == { <<10001, 10000>>, <<11001, 11000>> }

FloatExceeds(x, y, tol) ==
    IF Abs(x - y) = tol
    THEN <<x, y>> \in RoundsAbove \/ <<y, x>> \in RoundsAbove
    ELSE Abs(x - y) > tol

mock_validate_node_plus2(data, n) ==
    IF data.Total.kind = "malformed" \/ data.Tax.kind = "malformed"
    THEN [raised |-> TRUE, validation_status |-> "none", attempts |-> n]
    ELSE IF FloatExceeds(data.Total.cents,
                         Subtotal(data.line_items) + data.Tax.cents, ToleranceCents)
    THEN [raised |-> FALSE, validation_status |-> "needs_review", attempts |-> n + 2]
    ELSE [raised |-> FALSE, validation_status |-> "valid", attempts |-> n]

mock_validate_node_nocount(data, n) ==
    IF data.Total.kind = "malformed" \/ data.Tax.kind = "malformed"
    THEN [raised |-> TRUE, validation_status |-> "none", attempts |-> n]
    ELSE IF FloatExceeds(data.Total.cents,
                         Subtotal(data.line_items) + data.Tax.cents, ToleranceCents)
    THEN [raised |-> FALSE, validation_status |-> "needs_review", attempts |-> n]
    ELSE [raised |-> FALSE, validation_status |-> "valid", attempts |-> n]

\* mock_validate_node: float() raises on a malformed amount; otherwise the
\* total is compared with the sum of the non-tax line items plus the tax.
mock_validate_node(data, n) ==
    IF data.Total.kind = "malformed" \/ data.Tax.kind = "malformed"
    THEN [raised |-> TRUE, validation_status |-> "none", attempts |-> n]
    ELSE IF FloatExceeds(data.Total.cents,
                         Subtotal(data.line_items) + data.Tax.cents, ToleranceCents)
    THEN [raised |-> FALSE, validation_status |-> "needs_review", attempts |-> n + 1]
    ELSE [raised |-> FALSE, validation_status |-> "valid", attempts |-> n]

LoopTerminal == {"completed", "needs_review", "failed", "exhausted"}

NoRuns == [parse |-> 0, extract |-> 0, validate |-> 0]

\* current_state = {"pdf_url": "test.pdf", "attempts": 0}; the for loop starts.
LoopStart ==
    /\ loopPc \in {"start"} \cup LoopTerminal
    /\ loopPc' = IF 0 < max_attempts THEN "parse" ELSE "exhausted"
    /\ cycle' = 0
    /\ attempts' = 0
    /\ validation_status' = "none"
    /\ structured_data' = NoExtraction
    /\ nodeRuns' = NoRuns
    /\ UNCHANGED loopFrame

\* current_state.update(mock_parse_node(current_state)): attempts is copied
ParseNode ==
    /\ loopPc = "parse"
    /\ loopPc' = "extract"
    /\ nodeRuns' = [nodeRuns EXCEPT !.parse = @ + 1]
    /\ UNCHANGED <<cycle, attempts, validation_status, structured_data>>
    /\ UNCHANGED loopFrame

\* current_state.update(mock_extract_node(current_state))
ExtractNode(data) ==
    /\ loopPc = "extract"
    /\ loopPc' = "validate"
    /\ structured_data' = data
    /\ nodeRuns' = [nodeRuns EXCEPT !.extract = @ + 1]
    /\ UNCHANGED <<cycle, attempts, validation_status>>
    /\ UNCHANGED loopFrame

ValidateNode_noprogress ==
    /\ loopPc = "validate"
    /\ LET v == mock_validate_node(structured_data, attempts) IN
       IF v.raised
       THEN /\ loopPc' = "failed"
            /\ UNCHANGED <<cycle, attempts, validation_status>>
       ELSE /\ validation_status' = v.validation_status
            /\ UNCHANGED <<attempts, cycle>>
            /\ loopPc' = IF v.validation_status = "valid" THEN "completed" ELSE "parse"
    /\ nodeRuns' = NoRuns
    /\ UNCHANGED structured_data
    /\ UNCHANGED loopFrame

\* The validate node, the update of current_state and the three-way branch
\* that ends the cycle: break on valid, break on the attempt budget, or go
\* round again while the range lasts.
ValidateNode ==
    /\ loopPc = "validate"
    /\ LET v == mock_validate_node(structured_data, attempts) IN
       IF v.raised
       THEN /\ loopPc' = "failed"
            /\ UNCHANGED <<cycle, attempts, validation_status>>
       ELSE /\ validation_status' = v.validation_status
            /\ attempts' = v.attempts
            /\ IF v.validation_status = "valid"
               THEN loopPc' = "completed" /\ UNCHANGED cycle
               ELSE IF v.attempts >= max_attempts
               THEN loopPc' = "needs_review" /\ UNCHANGED cycle
               ELSE /\ cycle' = cycle + 1
                    /\ loopPc' = IF cycle + 1 < max_attempts THEN "parse"
                                 ELSE "exhausted"
    /\ nodeRuns' = [nodeRuns EXCEPT !.validate = @ + 1]
    /\ UNCHANGED structured_data
    /\ UNCHANGED loopFrame

LoopNext ==
    \/ LoopStart
    \/ ParseNode
    \/ \E data \in Extractions : ExtractNode(data)
    \/ ValidateNode

----------------------------------------------------------------------------
(* test_level6_webhook_validation.py, test_level7_database_storage.py:     *)
(* the job record and the handlers that update it on Apify webhook events. *)
(* The handlers look the job up by its run id and write the updated record *)
(* back (db.get_job_by_apify_run_id / db.update_job_with_results).         *)

MaxEvents == 3

RunIds == {"run_a", "run_b"}

\* confidence, in hundredths; "completed" needs confidence > 0.7
ConfidenceThreshold == 70
Confidences == {40, 70, 95}

JobTerminal == {"completed", "failed", "review"}

NoJob == [status |-> "none", terminalWrites |-> 0]

WebhookPayloads ==
    [hasFields : BOOLEAN,
     eventType : {"ACTOR.RUN.SUCCEEDED", "ACTOR.RUN.FAILED", "ACTOR.RUN.CREATED"},
     id : RunIds, confidence : Confidences]

EventDatas == [id : RunIds, status : {"SUCCEEDED", "FAILED", "RUNNING"}]

\* The record after the handler has set its status.
WithStatus(job, status) ==
    [status |-> status,
     terminalWrites |-> job.terminalWrites + (IF status \in JobTerminal THEN 1 ELSE 0)]

\* create_job_record: "processing" if apify_run_id else "queued"
create_job_record(run, triggered) ==
    /\ jobs[run].status \in {"none", "queued"}
    /\ jobs[run].status = "queued" => triggered
    /\ jobs' = [jobs EXCEPT ![run] =
                    WithStatus(@, IF triggered THEN "processing" ELSE "queued")]
    /\ UNCHANGED <<nevents, lastEvent>>
    /\ UNCHANGED jobFrame

\* update_job_with_results: the status of the job that received results
update_job_with_results(job, confidence) ==
    WithStatus(job, IF confidence > ConfidenceThreshold THEN "completed" ELSE "review")

\* handle_apify_webhook: one incoming event
handle_apify_webhook(payload) ==
    /\ nevents < MaxEvents
    /\ nevents' = nevents + 1
    /\ jobs[payload.id].status # "none"
    /\ IF ~payload.hasFields
       THEN /\ lastEvent' = [success |-> FALSE, action |-> "INVALID_PAYLOAD"]
            /\ UNCHANGED jobs
       ELSE IF payload.eventType = "ACTOR.RUN.SUCCEEDED"
       THEN /\ lastEvent' = [success |-> TRUE, action |-> "JOB_UPDATED"]
            /\ jobs' = [jobs EXCEPT ![payload.id] =
                            update_job_with_results(@, payload.confidence)]
       ELSE IF payload.eventType = "ACTOR.RUN.FAILED"
       THEN /\ lastEvent' = [success |-> TRUE, action |-> "JOB_FAILED"]
            /\ jobs' = [jobs EXCEPT ![payload.id] = WithStatus(@, "failed")]
       ELSE /\ lastEvent' = [success |-> TRUE, action |-> "EVENT_RECEIVED"]
            /\ UNCHANGED jobs
    /\ UNCHANGED jobFrame

\* simulate_database_operations: the database side of one event
simulate_database_operations(event_data) ==
    /\ nevents < MaxEvents
    /\ nevents' = nevents + 1
    /\ jobs[event_data.id].status # "none"
    /\ IF event_data.status = "SUCCEEDED"
       THEN /\ lastEvent' = [success |-> TRUE, action |-> "JOB_COMPLETED"]
            /\ jobs' = [jobs EXCEPT ![event_data.id] = WithStatus(@, "completed")]
       ELSE IF event_data.status = "FAILED"
       THEN /\ lastEvent' = [success |-> TRUE, action |-> "JOB_FAILED"]
            /\ jobs' = [jobs EXCEPT ![event_data.id] = WithStatus(@, "failed")]
       ELSE /\ lastEvent' = [success |-> TRUE, action |-> "STATUS_UPDATE"]
            /\ UNCHANGED jobs
    /\ UNCHANGED jobFrame

JobNext ==
    \/ \E run \in RunIds, triggered \in BOOLEAN : create_job_record(run, triggered)
    \/ \E payload \in WebhookPayloads : handle_apify_webhook(payload)
    \/ \E event_data \in EventDatas : simulate_database_operations(event_data)

----------------------------------------------------------------------------
(* docuflow-engine/main.py: POST /process.  One call runs download,        *)
(* conversion, extraction, the optional Google Sheets sync and the         *)
(* callback; the handler body has no suspension point between them that    *)
(* another request could observe.                                          *)

\* req.headers.get("Authorization", ""): the attribute may be missing on the
\* request object (EngineRequest declares no such field), the header may be
\* absent, carry another scheme, a wrong token or the engine secret.
NoHeaders == "no_attribute"
AuthHeaders == {NoHeaders, "", "Bearer wrong", "Bearer secret"}

ProcessEnvs ==
    [headers : AuthHeaders,
     download : {"ok", "status", "raise"},
     convert : {"ok", "raise"},
     extract : {"ok", "raise"},
     sheets : {"skip", "ok", "fail", "raise"},
     completedPost : {Response(200), Response(500), NetworkError},
     failedPost : {Response(200), Response(500), NetworkError}]

NoProcessEnv ==
    [headers |-> NoHeaders, download |-> "ok", convert |-> "ok", extract |-> "ok",
     sheets |-> "skip", completedPost |-> Response(200), failedPost |-> Response(200)]

ProcessResult(http, body, extracted, callbacks, temp) ==
    [http |-> http, body |-> body, extracted |-> extracted,
     callbacks |-> callbacks, temp |-> temp]

NoProcess == ProcessResult(0, "none", FALSE, <<>>, "none")

\* The except branch of process: the FAILED callback is attempted (its own
\* failure is only printed) and HTTPException(500) is raised.
process_failed(extracted, callbacks, temp) ==
    ProcessResult(500, "error", extracted, Append(callbacks, "FAILED"), temp)

\* The COMPLETED callback of a job whose extraction returned.
completed_callback(env) ==
    IF env.completedPost.raised
    THEN process_failed(TRUE, <<"COMPLETED">>, "deleted")
    ELSE \* a status other than 200 is only printed as a warning
         ProcessResult(200, "COMPLETED", TRUE, <<"COMPLETED">>, "deleted")

\* process(req): the whole handler
process_result(env) ==
    IF env.headers = NoHeaders
    THEN ProcessResult(500, "AttributeError", FALSE, <<>>, "none")
    ELSE IF env.headers # "Bearer secret"
    THEN ProcessResult(401, "error", FALSE, <<>>, "none")
    ELSE IF env.download # "ok"
    THEN process_failed(FALSE, <<>>, "none")
    ELSE IF env.convert = "raise" \/ env.extract = "raise"
    THEN process_failed(FALSE, <<>>, "deleted")
    ELSE completed_callback(env)

process(env) ==
    /\ prEnv' = env
    /\ prLast' = process_result(env)
    /\ UNCHANGED processFrame

ProcessNext == \E env \in ProcessEnvs : process(env)

----------------------------------------------------------------------------
(* JSON parsing and repair of an LLM response:                             *)
(*   llm_service.py extract_json / _repair_json,                           *)
(*   ocr_service.py OllamaOCRClient._repair_json,                          *)
(*   docuflow-engine/main.py extract_data_with_schema (the brace slice).   *)
(* A text is a sequence of tokens: the structural characters, "p" for a    *)
(* member with a scalar value ("key": 1), "K" for a key and its colon      *)
(* awaiting a value, "v" for a scalar value and "x" for a word of prose.   *)

MaxContentLen == 3

JsonTokens == {"{", "}", "[", "]", ",", "p", "K", "v", "x"}

\* json.loads: recursive descent; each Parse operator returns the position
\* after what it parsed, 0 when the text is not JSON there.
RECURSIVE ParseValue(_, _)
RECURSIVE ParseMembers(_, _)
RECURSIVE ParseElements(_, _)

AfterMember(text, j) ==
    IF j = 0 \/ j > Len(text) THEN 0
    ELSE IF text[j] = "," THEN ParseMembers(text, j + 1)
    ELSE IF text[j] = "}" THEN j + 1
    ELSE 0

AfterElement(text, j) ==
    IF j = 0 \/ j > Len(text) THEN 0
    ELSE IF text[j] = "," THEN ParseElements(text, j + 1)
    ELSE IF text[j] = "]" THEN j + 1
    ELSE 0

ParseMembers(text, i) ==
    IF i > Len(text) THEN 0
    ELSE IF text[i] = "p" THEN AfterMember(text, i + 1)
    ELSE IF text[i] = "K" THEN AfterMember(text, ParseValue(text, i + 1))
    ELSE 0

ParseElements(text, i) == AfterElement(text, ParseValue(text, i))

ParseValue(text, i) ==
    IF i > Len(text) THEN 0
    ELSE IF text[i] = "v" THEN i + 1
    ELSE IF text[i] = "{"
    THEN IF i + 1 <= Len(text) /\ text[i + 1] = "}" THEN i + 2
         ELSE ParseMembers(text, i + 1)
    ELSE IF text[i] = "["
    THEN IF i + 1 <= Len(text) /\ text[i + 1] = "]" THEN i + 2
         ELSE ParseElements(text, i + 1)
    ELSE 0

\* json.loads(text) returns (TRUE) or raises JSONDecodeError (FALSE)
json_loads(text) == ParseValue(text, 1) = Len(text) + 1

\* The Python value json.loads returns.
Parsed(text) ==
    [raised |-> FALSE,
     kind |-> IF text[1] = "{" THEN "dict" ELSE IF text[1] = "[" THEN "list" ELSE "scalar",
     text |-> text]

EmptyRecord == [raised |-> FALSE, kind |-> "dict", text |-> <<"{", "}">>]
NoDataFound == [raised |-> FALSE, kind |-> "dict", text |-> <<"no_data_found">>]
Raised(err) == [raised |-> TRUE, kind |-> err, text |-> <<>>]

\* str.find / str.rfind of one character, 0 when absent
RECURSIVE Find(_, _, _)
Find(text, c, i) ==
    IF i > Len(text) THEN 0
    ELSE IF text[i] = c THEN i
    ELSE Find(text, c, i + 1)

RECURSIVE RFind(_, _, _)
RFind(text, c, i) ==
    IF i < 1 THEN 0
    ELSE IF text[i] = c THEN i
    ELSE RFind(text, c, i - 1)

\* re.search(open .*? close, text, re.DOTALL): from the first opener to the
\* first closer after it; <<>> when there is no match.
FirstClosed(text, start, close) ==
    IF start = 0 \/ Find(text, close, start + 1) = 0 THEN <<>>
    ELSE SubSeq(text, start, Find(text, close, start + 1))

SearchShortest(text, open, close) == FirstClosed(text, Find(text, open, 1), close)

\* text.replace("," + close, close)
RECURSIVE DropCommaBefore(_, _)
DropCommaBefore(text, close) ==
    IF Len(text) < 2 THEN text
    ELSE IF text[1] = "," /\ text[2] = close
    THEN <<close>> \o DropCommaBefore(SubSeq(text, 3, Len(text)), close)
    ELSE <<text[1]>> \o DropCommaBefore(Tail(text), close)

FixTrailingCommas(text) == DropCommaBefore(DropCommaBefore(text, "}"), "]")

\* llm_service.extract_json(..., max_retries = 1)
ExtractMaxRetries == 1

\* llm_service._repair_json: the loop `for attempt in range(max_retries + 1)`
RECURSIVE repair_attempt(_, _, _)
repair_attempt(json_string, attempt, max_retries) ==
    IF attempt > max_retries THEN EmptyRecord
    ELSE IF json_loads(json_string) THEN Parsed(json_string)
    ELSE IF attempt >= max_retries THEN Raised("ValueError")
    ELSE IF SearchShortest(json_string, "{", "}") # <<>>
    THEN repair_attempt(FixTrailingCommas(SearchShortest(json_string, "{", "}")),
                        attempt + 1, max_retries)
    ELSE IF SearchShortest(json_string, "[", "]") # <<>>
    THEN repair_attempt(FixTrailingCommas(SearchShortest(json_string, "[", "]")),
                        attempt + 1, max_retries)
    ELSE EmptyRecord

repair_json(json_string, max_retries) ==
    IF json_string = <<>> THEN Raised("ValueError")
    ELSE repair_attempt(json_string, 0, max_retries)

\* A ValueError of _repair_json is raised again as "LLM extraction failed".
reraise(r) == IF r.raised THEN Raised("ValueError") ELSE r

\* llm_service.extract_json from the point where the LLM has answered:
\* content is the message content of the first choice.
extract_json(content) ==
    IF content = <<>> THEN NoDataFound
    ELSE IF json_loads(content) THEN Parsed(content)
    ELSE reraise(repair_json(content, ExtractMaxRetries))

\* The slice from the first opener to the last closer, <<>> when either is
\* missing or they are out of order.
Outermost(text, start, end) ==
    IF start # 0 /\ end # 0 /\ end > start THEN SubSeq(text, start, end) ELSE <<>>

BraceSlice(text) == Outermost(text, Find(text, "{", 1), RFind(text, "}", Len(text)))
BracketSlice(text) == Outermost(text, Find(text, "[", 1), RFind(text, "]", Len(text)))

\* OllamaOCRClient._repair_json: the repaired string; a slice that does not
\* parse raises inside the try block and "{}" is returned.
ocr_repair_json(json_string) ==
    IF BraceSlice(json_string) # <<>>
    THEN IF json_loads(BraceSlice(json_string))
         THEN BraceSlice(json_string) ELSE <<"{", "}">>
    ELSE IF BracketSlice(json_string) # <<>>
    THEN IF json_loads(BracketSlice(json_string))
         THEN BracketSlice(json_string) ELSE <<"{", "}">>
    ELSE <<"{", "}">>

\* extract_data_with_schema: the object parsed out of response_text
extract_data_with_schema(response_text) ==
    IF BraceSlice(response_text) = <<>> THEN Raised("Exception")
    ELSE IF json_loads(BraceSlice(response_text))
    THEN Parsed(BraceSlice(response_text))
    ELSE Raised("JSONDecodeError")

\* Responses: every text of up to MaxContentLen tokens, and JSON objects
\* (flat and nested) standing alone or between two pieces of prose that
\* contain no braces.
ShortContents == UNION { [1..n -> JsonTokens] : n \in 0..MaxContentLen }

FlatObjects == { <<"{", "}">>, <<"{", "p", "}">>, <<"{", "p", ",", "p", "}">> }

NestedObjects ==
    { <<"{", "K">> \o o \o <<"}">> : o \in FlatObjects }
    \cup { <<"{", "p", ",", "K">> \o o \o <<"}">> : o \in FlatObjects }
    \cup { <<"{", "K">> \o o \o <<",", "p", "}">> : o \in FlatObjects }
    \cup { <<"{", "K", "[", "v", "]", "}">>, <<"{", "K", "[", "{", "p", "}", "]", "}">> }

Objects == FlatObjects \cup NestedObjects

Proses == { <<>>, <<"x">>, <<"x", ",">>, <<"[">>, <<"]">>, <<"v">> }

\* Responses that hold a JSON array beside or inside a brace pair.
ArrayContents ==
    { <<"{", "x", "}", "[", "v", "]">>, <<"{", "[", "v", "]", "}">>,
      <<"x", "{", "[", "]", "}">>, <<"[", "v", "]", "{", "x", "}">>,
      <<"x", "[", "v", ",", "v", "]">> }

ResponseParts ==
    { <<c, <<>>, <<>>>> : c \in ShortContents \cup ArrayContents }
    \cup (Proses \X Objects \X Proses)

\* One LLM response is handled by each of the three implementations.
HandleResponse(parts) ==
    /\ rjParts = <<>>
    /\ rjParts' = parts
    /\ \E content \in {parts[1] \o parts[2] \o parts[3]} :
          /\ rjContent' = content
          /\ rjLlm' = extract_json(content)
          /\ rjOcr' = ocr_repair_json(content)
          /\ rjSlice' = extract_data_with_schema(content)
    /\ UNCHANGED repairFrame

\* The caller has taken the result; the next response can be handled.
ReleaseResponse ==
    /\ rjParts # <<>>
    /\ rjContent' = <<>>
    /\ rjParts' = <<>>
    /\ rjLlm' = NoDataFound
    /\ rjOcr' = <<"{", "}">>
    /\ rjSlice' = Raised("Exception")
    /\ UNCHANGED repairFrame

RepairNext ==
    \/ /\ rjParts = <<>>
       /\ \E parts \in ResponseParts : HandleResponse(parts)
    \/ ReleaseResponse

----------------------------------------------------------------------------
(* The validators of an extracted record:                                  *)
(*   textapify-agentic-actor/src/utils.py validate_math and                *)
(*   validate_null_checks (the lists of errors they return),               *)
(*   test_level3_self_correction.py validate_math_logic (the status).      *)
(* A record is modelled by the fields the validators read; amounts are in  *)
(* cents; a line item has one amount, which utils.py reads under the key   *)
(* 'total' and validate_math_logic under the key 'amount'.                 *)

UtilsToleranceCents == 5

\* The key is absent from the record (dict.get returns its default).
Missing == "<missing>"
Absent == [kind |-> "absent", cents |-> 0]

ValTotals == {0, 10000, 10001, 10002, 10005, 10006, 11000, 11001}

ValRecords ==
    [vendor_name : {"Acme", "", " ", Missing},
     Total : {Absent, Malformed} \cup { Amount(c) : c \in ValTotals },
     Tax : {Amount(0), Amount(1000)},
     line_items : ItemLists \cup { <<Item("Item", 10000), Item("Tax", 1000)>> },
     subtotal : {Absent, Amount(10000)}]

NoValRecord ==
    [vendor_name |-> Missing, Total |-> Absent, Tax |-> Amount(0),
     line_items |-> <<>>, subtotal |-> Absent]

\* sum(item.get('total', 0) for item in line_items)
RECURSIVE ItemsTotal(_)
ItemsTotal(items) ==
    IF items = <<>> THEN 0 ELSE Head(items).amount + ItemsTotal(Tail(items))

\* utils.validate_math: the errors appended; a total that is not a number
\* makes `calculated_total - total_amount` raise TypeError
validate_math(extracted_data) ==
    LET calculated_total == ItemsTotal(extracted_data.line_items)
        total_amount == extracted_data.Total.cents
        tax_amount == extracted_data.Tax.cents
    IN  IF extracted_data.Total = Malformed THEN {"TypeError"} ELSE
        (IF FloatExceeds(calculated_total, total_amount, UtilsToleranceCents)
         THEN {"Math Mismatch"} ELSE {})
        \cup (IF /\ extracted_data.subtotal # Absent
                 /\ FloatExceeds(extracted_data.subtotal.cents + tax_amount,
                                 total_amount, UtilsToleranceCents)
              THEN {"Tax Math Error"} ELSE {})
        \cup (IF extracted_data.vendor_name \in {Missing, ""}
              THEN {"Missing required field: vendor_name"} ELSE {})
        \cup (IF total_amount = 0 THEN {"Missing or zero total_amount"} ELSE {})

\* utils.validate_null_checks: a required field is None or a blank string
validate_null_checks(extracted_data) ==
    (IF extracted_data.vendor_name \in {Missing, "", " "}
     THEN {"Missing required field: vendor_name"} ELSE {})
    \cup (IF extracted_data.Total = Absent
          THEN {"Missing required field: total_amount"} ELSE {})

\* validate_math_logic: a ValueError of float() gives needs_review; otherwise
\* the total is compared with the non-tax line items plus the tax.
validate_math_logic_nocount(data, n) ==
    IF FloatExceeds(data.Total.cents,
                    Subtotal(data.line_items) + data.Tax.cents, ToleranceCents)
    THEN [validation_status |-> "needs_review", attempts |-> n]
    ELSE [validation_status |-> "valid", attempts |-> n]

validate_math_logic(data, n) ==
    IF data.Total.kind = "malformed" \/ data.Tax.kind = "malformed"
    THEN [validation_status |-> "needs_review", attempts |-> n + 1]
    ELSE IF FloatExceeds(data.Total.cents,
                         Subtotal(data.line_items) + data.Tax.cents,
                         ToleranceCents)
    THEN [validation_status |-> "needs_review", attempts |-> n + 1]
    ELSE [validation_status |-> "valid", attempts |-> n]

NoStatus == [validation_status |-> "none", attempts |-> 0]

RetryRounds == 3

NoHist == [rounds |-> 0, failed |-> 0]

Counted(h, r) ==
    [rounds |-> h.rounds + 1,
     failed |-> h.failed + (IF r.validation_status = "needs_review" THEN 1 ELSE 0)]

\* One extracted record is validated, attempts starting at 0.
Validate(extracted_data) ==
    /\ vlPc = "idle"
    /\ vlPc' = "done"
    /\ vlData' = extracted_data
    /\ vlLogic' = validate_math_logic(extracted_data, 0)
    /\ vlMath' = validate_math(extracted_data)
    /\ vlNull' = validate_null_checks(extracted_data)
    /\ vlHist' = Counted(NoHist, vlLogic')
    /\ UNCHANGED validatorFrame

\* The retry loop of test case 4: the same record is validated again with
\* the attempts the previous validation returned, three rounds in all.
ValidateAgain ==
    /\ vlPc = "done"
    /\ vlHist.rounds < RetryRounds
    /\ vlLogic' = validate_math_logic(vlData, vlLogic.attempts)
    /\ vlHist' = Counted(vlHist, vlLogic')
    /\ UNCHANGED <<vlPc, vlData, vlMath, vlNull>>
    /\ UNCHANGED validatorFrame

\* The caller has taken the verdict; the next record can be validated.
ValidateDone ==
    /\ vlPc = "done"
    /\ vlPc' = "idle"
    /\ vlData' = NoValRecord
    /\ vlLogic' = NoStatus
    /\ vlMath' = {}
    /\ vlNull' = {}
    /\ vlHist' = NoHist
    /\ UNCHANGED validatorFrame

ValidatorNext ==
    \/ /\ vlPc = "idle"
       /\ \E extracted_data \in ValRecords : Validate(extracted_data)
    \/ ValidateAgain
    \/ ValidateDone

----------------------------------------------------------------------------
(* Schema-driven extraction:                                               *)
(*   docuflow-engine/main.py extract_data_with_schema, the loop that       *)
(*   builds validated_data from the parsed LLM answer,                     *)
(*   main_new.py extract_data_from_markdown, the custom-schema branch.     *)
(* A schema is a list of fields (key and type; main_new.py calls the key   *)
(* 'name').  A JSON value is modelled by its Python type and a tag.        *)

MaxFields == 2

SchemaKeys == {"vendor", "total"}
FieldTypes == {"text", "currency", "date", "number", "array", "boolean", "string"}

Field(key, type) == [key |-> key, type |-> type]

Schemas ==
    UNION { [1..n -> [key : SchemaKeys, type : FieldTypes]] : n \in 1..MaxFields }

Val(kind, tag) == [kind |-> kind, tag |-> tag]

\* Values of a key in the LLM's JSON answer.
JsonValues ==
    { Val("str", "$1,200.50"), Val("str", "abc"), Val("float", "12.5"),
      Val("bool", "True"), Val("list", "[1]"), Val("NoneType", "None") }

\* The parsed answer: each key is absent or carries a value.
Answers == [SchemaKeys -> JsonValues \cup {Val("absent", "")}]

\* The value stored for a field whose key is in extracted_data; "TypeError"
\* when float(value) raises it (only ValueError is caught).
converted(expected_type, value) ==
    IF expected_type = "number" /\ value.kind \notin {"float", "bool"}
    THEN IF value.kind = "str"
         THEN IF value.tag = "$1,200.50" THEN Val("float", "1200.5")
              ELSE Val("float", "0.0")
         ELSE Val("raise", "TypeError")
    ELSE IF expected_type = "array" /\ value.kind # "list"
    THEN IF value.kind = "NoneType" THEN Val("list", "[]") ELSE Val("list", "[value]")
    ELSE IF expected_type = "boolean" /\ value.kind # "bool"
    THEN Val("bool", "False")  \* none of the values reads true, 1, yes or on
    ELSE value

\* The default stored for a field whose key is not in extracted_data;
\* types outside the if/elif chain store nothing.
default_value(expected_type) ==
    IF expected_type \in {"string", "date"} THEN Val("str", "")
    ELSE IF expected_type = "number" THEN Val("float", "0.0")
    ELSE IF expected_type = "array" THEN Val("list", "[]")
    ELSE IF expected_type = "boolean" THEN Val("bool", "False")
    ELSE Val("absent", "")

\* What the loop body stores for one field (kind "absent": nothing).
field_value(field, extracted_data) ==
    IF extracted_data[field.key].kind # "absent"
    THEN converted(field.type, extracted_data[field.key])
    ELSE default_value(field.type)

\* A dictionary built by a loop over the schema, stored[i] being what the
\* loop body stores for field i: a later field with the same key overwrites
\* an earlier one.
Built(schema, stored) ==
    LET sets == { i \in DOMAIN schema : stored[i].kind # "absent" }
        lastOf(k) == CHOOSE i \in sets :
                      /\ schema[i].key = k
                      /\ \A j \in sets : schema[j].key = k => j <= i
    IN  [k \in { schema[i].key : i \in sets } |-> stored[lastOf(k)]]

NoFields == [k \in {} |-> Val("absent", "")]

\* extract_data_with_schema after json.loads: validated_data, or the
\* exception that leaves the function.
validated_data(schema, extracted_data) ==
    LET stored == [i \in DOMAIN schema |-> field_value(schema[i], extracted_data)] IN
    IF \E i \in DOMAIN schema : stored[i].kind = "raise"
    THEN [raised |-> TRUE, fields |-> NoFields]
    ELSE [raised |-> FALSE, fields |-> Built(schema, stored)]

\* What the regular expressions of the custom-schema branch find in the
\* markdown; a date contains digits, so it also matches the amount pattern.
Markdowns == { [amount |-> FALSE, date |-> FALSE], [amount |-> TRUE, date |-> FALSE],
               [amount |-> TRUE, date |-> TRUE] }

\* extract_data_from_markdown with a custom schema: extracted_data
custom_schema_fields(markdown_content, custom_schema) ==
    LET found(field) ==
            IF field.type = "currency"
            THEN IF markdown_content.amount THEN Val("str", "matches[0]")
                 ELSE Val("absent", "")
            ELSE IF field.type = "date"
            THEN IF markdown_content.date THEN Val("str", "matches[0]")
                 ELSE Val("absent", "")
            ELSE Val("str", "Extracted field_name")
    IN  [raised |-> FALSE,
         fields |-> Built(custom_schema,
                          [i \in DOMAIN custom_schema |-> found(custom_schema[i])])]

NoRecord == [raised |-> FALSE, fields |-> NoFields]
NoAnswer == [k \in SchemaKeys |-> Val("absent", "")]

\* docuflow-engine: one LLM answer is checked against the schema.
ExtractWithSchema(schema, extracted_data) ==
    /\ sxPc = "idle"
    /\ sxPc' = "engine"
    /\ sxSchema' = schema
    /\ sxInput' = extracted_data
    /\ sxRecord' = validated_data(schema, extracted_data)
    /\ UNCHANGED schemaFrame

\* main_new.py: one markdown document is searched for the custom schema.
ExtractFromMarkdown(custom_schema, markdown_content) ==
    /\ sxPc = "idle"
    /\ sxPc' = "markdown"
    /\ sxSchema' = custom_schema
    /\ sxInput' = markdown_content
    /\ sxRecord' = custom_schema_fields(markdown_content, custom_schema)
    /\ UNCHANGED schemaFrame

\* The caller has taken the record.
SchemaDone ==
    /\ sxPc # "idle"
    /\ sxPc' = "idle"
    /\ sxSchema' = <<>>
    /\ sxInput' = NoAnswer
    /\ sxRecord' = NoRecord
    /\ UNCHANGED schemaFrame

SchemaNext ==
    \/ /\ sxPc = "idle"
       /\ \E schema \in Schemas, extracted_data \in Answers :
             ExtractWithSchema(schema, extracted_data)
    \/ /\ sxPc = "idle"
       /\ \E schema \in Schemas, markdown_content \in Markdowns :
             ExtractFromMarkdown(schema, markdown_content)
    \/ SchemaDone

----------------------------------------------------------------------------
(* main_new.py extract_document: the job id of a request.                  *)
(*   job_id = request.job_id or f"job_{int(start_time)}"                   *)
(* An id is a pair <<prefix, number>>: <<"job_", t>> is the string built   *)
(* from the clock, <<"caller", n>> a non-empty string the caller supplied. *)

MaxClock == 2
MaxJobs == 3

\* request.job_id: None, the empty string, or a non-empty string.
SuppliedJobIds == { <<"None", 0>>, <<"", 0>>, <<"caller", 1>>, <<"caller", 2>> }

\* `request.job_id or f"job_{int(start_time)}"`: None and "" are falsy.
job_id(supplied, start_time) ==
    IF supplied[1] \in {"None", ""} THEN <<"job_", start_time>> ELSE supplied

\* A request arrives and the handler computes its job id.
AssignJobId(supplied) ==
    /\ Len(assigned) < MaxJobs
    /\ assigned' = Append(assigned, [supplied |-> supplied,
                                     job_id |-> job_id(supplied, now)])
    /\ UNCHANGED now
    /\ UNCHANGED idFrame

\* A second passes: int(time.time()) grows by one.
Tick ==
    /\ now < MaxClock
    /\ now' = now + 1
    /\ UNCHANGED assigned
    /\ UNCHANGED idFrame

JobIdNext ==
    \/ \E supplied \in SuppliedJobIds : AssignJobId(supplied)
    \/ Tick

----------------------------------------------------------------------------
(* main_new.py on the server's event loop (uvicorn.run(app), one process). *)
(* extract_document, process_document_sync and process_document_async are  *)
(* coroutines; download_document, process_document_with_hybrid_ocr and     *)
(* extract_data_from_markdown are plain functions that block in            *)
(* requests.get / requests.post.  A coroutine keeps the event loop until   *)
(* it reaches an await that suspends: only the aiohttp POST and the sleep  *)
(* of send_webhook_notification do.                                        *)

EvJobs == {1, 2, 3}

NotReceived == [webhook |-> FALSE, at |-> "none"]

\* The capability calls of process_document_sync, in program order.
AfterCall(at) ==
    IF at = "download" THEN "ocr" ELSE IF at = "ocr" THEN "llm" ELSE "end"

\* A client has sent a request; it waits in the server's socket until the
\* event loop runs its handler.
RequestArrives(j, webhook) ==
    /\ evStage[j].at = "none"
    /\ evStage' = [evStage EXCEPT ![j] = [webhook |-> webhook, at |-> "arrived"]]
    /\ UNCHANGED evRunning
    /\ UNCHANGED eventFrame

\* extract_document starts on a free event loop.  In webhook mode it adds the
\* background task and returns; otherwise it awaits process_document_sync,
\* which runs on without suspending and blocks in download_document.
RunHandler(j) ==
    /\ evRunning = 0
    /\ evStage[j].at = "arrived"
    /\ IF evStage[j].webhook
       THEN /\ evStage' = [evStage EXCEPT ![j].at = "scheduled"]
            /\ UNCHANGED evRunning
       ELSE /\ evStage' = [evStage EXCEPT ![j].at = "download"]
            /\ evRunning' = j
    /\ UNCHANGED eventFrame

\* process_document_async starts on a free event loop and blocks in
\* download_document.
StartTask(j) ==
    /\ evRunning = 0
    /\ evStage[j].at = "scheduled"
    /\ evStage' = [evStage EXCEPT ![j].at = "download"]
    /\ evRunning' = j
    /\ UNCHANGED eventFrame

\* The blocking call of the running coroutine returns or raises.  After the
\* last call, or after an exception, the handler responds (the loop is free
\* again) or the background task awaits the webhook POST (the loop is free
\* while it waits).
CallReturns(j, ok) ==
    /\ evRunning = j
    /\ LET next == IF ok THEN AfterCall(evStage[j].at) ELSE "end" IN
       IF next = "end"
       THEN /\ evStage' = [evStage EXCEPT
                             ![j].at = IF evStage[j].webhook THEN "webhook" ELSE "done"]
            /\ evRunning' = 0
       ELSE /\ evStage' = [evStage EXCEPT ![j].at = next]
            /\ UNCHANGED evRunning
    /\ UNCHANGED eventFrame

\* send_webhook_notification returns once the loop can resume the task.
WebhookReturns(j) ==
    /\ evRunning = 0
    /\ evStage[j].at = "webhook"
    /\ evStage' = [evStage EXCEPT ![j].at = "done"]
    /\ UNCHANGED evRunning
    /\ UNCHANGED eventFrame

EventNext ==
    \/ \E j \in EvJobs, webhook \in BOOLEAN : RequestArrives(j, webhook)
    \/ \E j \in EvJobs : RunHandler(j)
    \/ \E j \in EvJobs : StartTask(j)
    \/ \E j \in EvJobs, ok \in BOOLEAN : CallReturns(j, ok)
    \/ \E j \in EvJobs : WebhookReturns(j)

----------------------------------------------------------------------------
(* Specifications: one per component; the others stay in their initial state *)

\* The OCR client is constructed and idle; main_new.py has been imported (the
\* Redis connection was established, or caching is disabled) and has served
\* nothing yet; the self-correction cycle has not started.
Init ==
    /\ ocrPc = "idle"
    /\ ocrFile = NoFile
    /\ ocrT1 = NoEnv
    /\ ocrResult = NoResult
    /\ ocrCalls = NoCalls
    /\ ocrOllama = NoOllama
    /\ redisUp \in BOOLEAN
    /\ cache = [k \in CacheKeys |-> NoEntry]
    /\ tasks = {}
    /\ nreq = 0
    /\ last = NoLast
    /\ ttlElapsed = FALSE
    /\ loopPc = "start"
    /\ cycle = 0
    /\ attempts = 0
    /\ validation_status = "none"
    /\ structured_data = NoExtraction
    /\ nodeRuns = NoRuns
    /\ jobs = [r \in RunIds |-> NoJob]
    /\ nevents = 0
    /\ lastEvent = [success |-> TRUE, action |-> "none"]
    /\ whReceiver = <<>>
    /\ whResult = NoDelivery
    /\ prEnv = NoProcessEnv
    /\ prLast = NoProcess
    /\ rjContent = <<>>
    /\ rjParts = <<>>
    /\ rjLlm = NoDataFound
    /\ rjOcr = <<"{", "}">>
    /\ rjSlice = Raised("Exception")
    /\ vlPc = "idle"
    /\ vlData = NoValRecord
    /\ vlLogic = NoStatus
    /\ vlMath = {}
    /\ vlNull = {}
    /\ vlHist = NoHist
    /\ sxPc = "idle"
    /\ sxSchema = <<>>
    /\ sxInput = NoAnswer
    /\ sxRecord = NoRecord
    /\ now = 0
    /\ assigned = <<>>
    /\ evRunning = 0
    /\ evStage = [j \in EvJobs |-> NotReceived]

SpecOcr == Init /\ [][OcrNext]_vars

SpecEngine == Init /\ [][EngineNext]_vars

SpecLoop == Init /\ [][LoopNext]_vars

\* The cycle is sequential code: a node that can run does run.
SpecLoopFair == SpecLoop /\ WF_vars(LoopNext)

SpecJobs == Init /\ [][JobNext]_vars

SpecWebhook == Init /\ [][WebhookNext]_vars

SpecProcess == Init /\ [][ProcessNext]_vars

SpecRepair == Init /\ [][RepairNext]_vars

SpecValidator == Init /\ [][ValidatorNext]_vars

SpecSchema == Init /\ [][SchemaNext]_vars

SpecJobId == Init /\ [][JobIdNext]_vars

SpecEvents == Init /\ [][EventNext]_vars

----------------------------------------------------------------------------
(* Claims C1 - C10 *)

\* C1 (as stated): single-flight.  For every cache key at most one
\* computation is in flight: no two scheduled background tasks share a key,
\* and a handler call never computes for a key while a background task for
\* that key is scheduled and has not run yet.
C1_SingleFlight ==
    /\ \A t1 \in tasks, t2 \in tasks : t1.key = t2.key => t1 = t2
    /\ (last.kind = "handler" /\ last.served = "computed")
          => \A t \in tasks : t.key # last.key

\* A handler call is the step that counts a request.
HandlerStep == nreq' = nreq + 1

SameDocumentAndSchema(r1, r2) ==
    /\ r1.document_url = r2.document_url
    /\ r1.schema_type = r2.schema_type
    /\ r1.schema_json = r2.schema_json

\* Two calls in sequence: the previous step was a synchronous call that
\* computed and succeeded, nothing expired since, and the next call asks for
\* the same document and schema.
SecondOfTwoCalls ==
    /\ HandlerStep
    /\ last.kind = "handler" /\ last.served = "computed" /\ last.status = "success"
    /\ ~ttlElapsed
    /\ SameDocumentAndSchema(last.req, last'.req)

RanOnce(r) == r.ocr.calls.granite = 1 /\ r.extract = 1

C4_EntryMatchesRequest ==
    (last.served = "cache" /\ last.status = "success")
       => SameDocumentAndSchema(last.req, last.data)

Tier1Produced ==
    /\ ocrCalls.granite = 1
    /\ validate_file(ocrFile) = "ok"
    /\ ~ocrT1.raises

Tier1Returned ==
    /\ ocrPc = "done"
    /\ ocrResult.status = "success"
    /\ ocrResult.engine_used = "granite-docling"
    /\ ocrResult.markdown = ocrT1.text
    /\ ocrCalls.deepseek = 0

Tier1Failed ==
    /\ ocrCalls.granite = 1
    /\ \/ validate_file(ocrFile) # "ok"
       \/ ocrT1.raises
       \/ ocrT1.text.len <= 100

\* C6: once tier 1 has failed, process_with_deepseek_ocr is invoked exactly
\* once before hybrid_ocr_process returns (never twice, and not at all while
\* tier 1 has not failed), and the returned engine_used is deepseek-ocr
\* exactly when tier 2 succeeded, with markdown that passes the tier-2 gate.
C6_FallbackOnce ==
    /\ ocrCalls.deepseek <= 1
    /\ ocrCalls.deepseek = 1 => Tier1Failed
    /\ (ocrPc = "done" /\ Tier1Failed)
          => /\ ocrCalls.deepseek = 1
             /\ ocrCalls.ollama <= 1
             /\ ocrResult.status \in {"success", "error"}
             /\ ocrResult.status = "success"
                   => /\ ocrResult.engine_used = "deepseek-ocr"
                      /\ ocrResult.markdown.len - ocrResult.markdown.ws >= 20
                      /\ ocrResult.markdown.bursts = 0
             /\ ocrResult.status = "error" => ocrResult.engine_used = "none"

C6_Witness ==
    /\ ocrPc = "done" /\ Tier1Failed /\ ocrCalls.deepseek = 1
    /\ ocrResult.status = "success" /\ ocrResult.engine_used = "deepseek-ocr"

\* C7: a run in which both OCR tiers fail gets status error with engine_used
\* "none" from hybrid_ocr_process, ends as an error (HTTP 500, or the error
\* payload for a background task), runs no extraction and no LLM call, and
\* leaves the cache as it was.
C7_BothTiersFail ==
    [][ (last' # last /\ last'.run.ocr.failed = {1, 2})
          => /\ last'.run.ocr.result.status = "error"
             /\ last'.run.ocr.result.engine_used = "none"
             /\ last'.status = "error"
             /\ last'.kind = "task" => last'.payload = "error"
             /\ last'.run.extract = 0 /\ last'.run.llm = 0
             /\ ~last'.run.wrote
             /\ cache' = cache ]_vars

C7_Witness ==
    /\ last.run.ocr.failed = {1, 2}
    /\ last.run.ocr.calls.granite = 1 /\ last.run.ocr.calls.deepseek = 1
    /\ last.run.ocr.calls.posts = 2
    /\ last.status = "error"

\* C8: for a file that validate_file rejects, neither DocumentConverter.convert
\* nor call_ollama_ocr (nor any POST to the OCR API) is ever invoked.
C8_NoEngineOnInvalidFile ==
    validate_file(ocrFile) # "ok"
       => ocrCalls.convert = 0 /\ ocrCalls.ollama = 0 /\ ocrCalls.posts = 0

C8_Witness ==
    /\ ocrPc = "done"
    /\ validate_file(ocrFile) = "width_too_small"
    /\ ocrCalls.granite = 1 /\ ocrCalls.deepseek = 1 /\ ocrCalls.validate = 2

\* C9: in every state of the self-correction cycle attempts <= max_attempts.
C9_AttemptsBounded == attempts <= max_attempts

C9_Witness ==
    /\ loopPc = "needs_review" /\ attempts = max_attempts
    /\ nodeRuns.validate = max_attempts

\* C10: a running cycle always reaches a terminal state (completed,
\* needs_review or failed); it does not go round between extraction and
\* validation forever.
C10_Terminates ==
    (loopPc \in {"parse", "extract", "validate"})
       ~> (loopPc \in {"completed", "needs_review", "failed"})

C10_Witness ==
    /\ loopPc = "needs_review" /\ cycle = max_attempts - 1
    /\ nodeRuns.extract = max_attempts

\* C11: a job whose validations all return needs_review (none valid, none
\* raising) ends in the terminal needs_review state after exactly
\* max_attempts = 3 validations, with attempts equal to 3.
C11_NeedsReviewAfterThree ==
    (loopPc \in LoopTerminal /\ loopPc \notin {"completed", "failed"})
       => /\ loopPc = "needs_review"
          /\ validation_status = "needs_review"
          /\ attempts = 3
          /\ attempts = max_attempts
          /\ nodeRuns.validate = 3

C11_Witness ==
    /\ loopPc = "needs_review" /\ attempts = 3
    /\ structured_data =
          Extraction(Amount(50000), Amount(1000), <<Item("Item", 10000)>>)

\* C12 (as stated): within one job the parse (OCR) stage runs at most once;
\* a retry after needs_review re-runs only extraction and validation.
C12_ParseAtMostOnce == nodeRuns.parse <= 1

NotificationSent == whReceiver # <<>>

C14_AtMostThreePosts ==
    NotificationSent =>
        /\ whResult.posts <= 3
        /\ whResult.posts <= WebhookMaxRetries
        /\ (\A i \in 1..3 : whReceiver[i] # Response(WebhookOk))
              => (~whResult.delivered /\ whResult.posts = 3)

C14_Witness ==
    /\ NotificationSent
    /\ whReceiver[1] = Response(500) /\ whReceiver[2] = NetworkError
    /\ whReceiver[3] = Response(204) /\ whReceiver[4] = Response(200)
    /\ whResult.posts = 3 /\ ~whResult.delivered

\* C15 (as stated): the call stops and reports delivered on the first 2xx
\* response (any status 200..299) and goes on only after a non-2xx response or
\* a network error.
Is2xx(o) == ~o.raised /\ o.status >= 200 /\ o.status <= 299

C15_StopsOnFirst2xx ==
    NotificationSent =>
        \A i \in 1..WebhookMaxRetries :
            (Is2xx(whReceiver[i]) /\ \A j \in 1..(i - 1) : ~Is2xx(whReceiver[j]))
               => (whResult.delivered /\ whResult.posts = i)

\* C16: in the asynchronous path, when process_document_sync succeeded and
\* every webhook attempt failed, the extraction stays as it was: the entry
\* written to the cache is present and unchanged, the job's outcome is
\* success, and the only payload sent is the success payload.
TaskStep == tasks' # tasks /\ last'.kind = "task"

C16_DeliveryFailureKeepsResult ==
    [][(TaskStep /\ last'.run.status = "success" /\ ~last'.webhook.delivered)
          => /\ last'.status = "success"
             /\ last'.payload = "success"
             /\ last'.webhook.posts = WebhookMaxRetries
             /\ last'.write = "ok"
                   => cache'[last'.key] = [data |-> last'.run.data,
                                           ocr_engine_used |-> last'.run.engine]
             /\ last'.write # "ok" => cache' = cache]_vars

C16_Witness ==
    /\ last.kind = "task" /\ last.run.status = "success"
    /\ ~last.webhook.delivered /\ last.webhook.posts = 3
    /\ last.write = "ok" /\ cache[last.key] # NoEntry

\* C18 (as stated): whenever a request supplies webhook_url the terminal state
\* is pushed to it on every path, the cache path included: the handler call
\* either schedules the background task that sends the POST or has sent one.
C18_WebhookAlwaysPushed ==
    [][(HandlerStep /\ last'.req.webhook_url # NoWebhook)
          => (last'.served = "scheduled" \/ last'.webhook.posts >= 1)]_vars

ResponseHandled == rjParts # <<>>

C19_MalformedJsonNotFatal ==
    (ResponseHandled /\ rjContent # <<>> /\ ~json_loads(rjContent))
       => /\ ~rjLlm.raised
          /\ rjLlm = EmptyRecord \/ json_loads(rjLlm.text)
          /\ json_loads(rjOcr)

\* C20 (as stated): for every valid JSON object J, nested objects included,
\* and prose P1, P2 without braces, the response P1 + J + P2 yields the same
\* value as J returned bare, in each of the three implementations.
C20_ProseRoundTrip ==
    (ResponseHandled /\ rjParts[2] \in Objects)
       => /\ rjLlm = extract_json(rjParts[2])
          /\ rjOcr = ocr_repair_json(rjParts[2])
          /\ rjSlice = extract_data_with_schema(rjParts[2])

----------------------------------------------------------------------------
(* Claims C21 - C30 *)

\* The OCRError that attempt 1 raised for the current document (its message
\* chain), which hybrid_ocr_process only logs.
Tier1Reason == process_with_granite_docling(ocrFile, ocrT1).err

\* C24 (as stated): when both OCR tiers fail, the error that
\* hybrid_ocr_process returns carries tier 1's failure reason (the message of
\* the OCRError process_with_granite_docling raised) as well as tier 2's.
C24_BothReasonsKept ==
    (ocrPc = "done" /\ ocrResult.status = "error")
       => /\ \E i \in DOMAIN ocrResult.error : ocrResult.error[i] = "deepseek_failed"
          /\ \E i \in 1..(Len(ocrResult.error) - Len(Tier1Reason) + 1) :
                SubSeq(ocrResult.error, i, i + Len(Tier1Reason) - 1) = Tier1Reason

\* C30 (as stated): when validate_file fails for a document, the validation
\* is evaluated once and process_with_deepseek_ocr is not entered.
C30_ValidationFailureImmediate ==
    (ocrCalls.granite = 1 /\ validate_file(ocrFile) # "ok")
       => /\ ocrCalls.validate = 1
          /\ ocrCalls.deepseek = 0
          /\ ocrPc = "done"

\* The OCRError messages call_ollama_ocr raises.
OcrErrors == {"model_not_found", "invalid_response", "cannot_connect",
              "timed_out", "request_failed", "all_retries_failed"}

\* C25 (as stated): whatever the requests meet, one call_ollama_ocr
\* invocation sends at most 2 POSTs, the second one (sent only after the first
\* timed out or failed) with the 60-second timeout, and ends by returning a
\* response or raising OCRError.
C25_TwoPostsThenOCRError ==
    ocrOllama.called
       => /\ ocrOllama.ret.posts \in 1..2
          /\ ocrOllama.ret.posts = 2
                => /\ ocrOllama.api[1] \in RetryablePost
                   /\ ocrOllama.ret.timeout = 60
          /\ ocrOllama.ret.ok \/ ocrOllama.ret.err \in OcrErrors

\* C25, the part about the number of POSTs and the timeouts alone.
C25_PostsBounded ==
    ocrOllama.called
       => /\ ocrOllama.ret.posts \in 1..2
          /\ ocrOllama.ret.posts = ocrCalls.posts
          /\ ocrOllama.ret.posts = 1 => ocrOllama.ret.timeout = 45
          /\ ocrOllama.ret.posts = 2
                => /\ ocrOllama.api[1] \in RetryablePost
                   /\ ocrOllama.ret.timeout = 60

\* C26 (as stated): tier-1 output that is blank after trimming or contains a
\* garbage burst is rejected by the gate and the document goes to tier 2
\* instead of being returned with engine_used naming tier 1.
C26_Tier1GateBothRules ==
    (/\ ocrPc = "done"
     /\ Tier1Produced
     /\ (ocrT1.text.len - ocrT1.text.ws = 0 \/ ocrT1.text.bursts > 0))
       => /\ ocrResult.engine_used # "granite-docling"
          /\ ocrCalls.deepseek = 1

\* The keys a schema declares, and the types the contract names.
DeclaredKeys(schema) == { schema[i].key : i \in DOMAIN schema }
ContractTypes == {"text", "currency", "date", "number", "array", "boolean"}

\* C21 (as stated): for every schema over the types text, currency, date,
\* number, array and boolean and every LLM response, the record that
\* schema-driven extraction returns has exactly one entry per declared field.
C21_OneEntryPerField ==
    (/\ sxPc # "idle"
     /\ ~sxRecord.raised
     /\ \A i \in DOMAIN sxSchema : sxSchema[i].type \in ContractTypes)
       => DOMAIN sxRecord.fields = DeclaredKeys(sxSchema)

\* The arithmetic difference of a record in cents, as the contract defines it.
Difference(d) == Abs(d.Total.cents - (Subtotal(d.line_items) + d.Tax.cents))

\* C22 (as stated): the arithmetic check fails exactly when the total differs
\* from the non-tax line items plus the tax by more than 0.01: a difference
\* of at most 1 cent passes and any larger difference fails.
C22_FailsIffOverOneCent ==
    vlPc = "done"
       => /\ (vlLogic.validation_status = "needs_review") <=> (Difference(vlData) > 1)
          /\ ("Math Mismatch" \in vlMath) <=> (Difference(vlData) > 1)

\* C23 (as stated): the status is valid if and only if the arithmetic check
\* and the completeness check (vendor and total amount present and not
\* empty) both pass.
C23_ValidIffBothChecks ==
    vlPc = "done"
       => ((vlLogic.validation_status = "valid")
              <=> (/\ ~FloatExceeds(vlData.Total.cents,
                                    Subtotal(vlData.line_items) + vlData.Tax.cents,
                                    ToleranceCents)
                   /\ validate_null_checks(vlData) = {}))

\* C28 (as stated): in every run the stages execute in the order OCR,
\* extraction, validation, cache write, webhook: a result is written to the
\* cache or pushed to the webhook only after extraction ran on the OCR output
\* and the validator ran on the extracted data.
C28_ValidatedBeforeCacheAndWebhook ==
    [][ (last' # last /\ last'.served = "computed"
         /\ (last'.run.wrote \/ last'.payload = "success"))
          => /\ last'.run.ocr.result.status = "success"
             /\ last'.run.extract = 1
             /\ last'.run.validate >= 1 ]_vars

\* C27 (as stated): two distinct requests that supply no job_id are never
\* assigned the same system-generated id, also when both arrive within the
\* same second.
C27_SystemIdsUnique ==
    \A i, j \in DOMAIN assigned :
        (/\ i # j
         /\ assigned[i].supplied = <<"None", 0>>
         /\ assigned[j].supplied = <<"None", 0>>)
           => assigned[i].job_id # assigned[j].job_id

\* A job is waiting on a download, OCR or LLM call.
InCapabilityCall(j) == evStage[j].at \in {"download", "ocr", "llm"}

\* C29 (as stated): while one job waits on a slow download, OCR or LLM call,
\* the requests of other jobs can make progress: a request that has arrived
\* can have its handler run and a scheduled background task can start.
C29_CallsDoNotBlockOthers ==
    \A j, k \in EvJobs :
        (/\ j # k
         /\ InCapabilityCall(j)
         /\ evStage[k].at \in {"arrived", "scheduled"})
           => ENABLED (RunHandler(k) \/ StartTask(k))

----------------------------------------------------------------------------
(* Claims C31 - C39 *)

\* C31 (as stated): between any two consecutive delivery attempts of
\* send_webhook_notification there is a wait of 2^attempt seconds, whether the
\* earlier attempt met a non-2xx response or a network error, and no wait
\* follows the last attempt: a call that made n POSTs slept 1, 2, ..., 2^(n-2).
C31_BackoffBetweenAttempts ==
    NotificationSent =>
        /\ Len(whResult.sleeps) = whResult.posts - 1
        /\ \A i \in DOMAIN whResult.sleeps : whResult.sleeps[i] = 2 ^ (i - 1)

\* A step in which validate_math_logic returned.
ValidationStep == vlHist'.rounds = vlHist.rounds + 1

\* C32: one validation step returns attempts + 1 exactly when its status is
\* needs_review and returns attempts unchanged when its status is valid;
\* starting from 0, after k failed validations in a row attempts equals k.
C32_AttemptsCountFailures ==
    [][ ValidationStep =>
          LET given == IF vlPc = "idle" THEN 0 ELSE vlLogic.attempts IN
          /\ vlLogic'.validation_status \in {"valid", "needs_review"}
          /\ (vlLogic'.validation_status = "needs_review")
                <=> (vlLogic'.attempts = given + 1)
          /\ (vlLogic'.validation_status = "valid")
                <=> (vlLogic'.attempts = given)
          /\ vlLogic'.attempts = vlHist'.failed ]_vars

C32_Witness ==
    /\ vlPc = "done"
    /\ vlHist = [rounds |-> 3, failed |-> 3]
    /\ vlLogic = [validation_status |-> "needs_review", attempts |-> 3]
    /\ vlData.Total = Amount(11001) /\ vlData.Tax = Amount(1000)


\* The OCR model answered and process_with_deepseek_ocr applied its gate.
Tier2Gated == ocrPc = "done" /\ ocrOllama.called /\ ocrOllama.ret.ok

Trimmed(text) == text.len - text.ws

GarbageRejected ==
    /\ ocrResult.status = "error"
    /\ ocrResult.error = <<"deepseek_failed", "garbage_characters">>

InsufficientRejected ==
    /\ ocrResult.status = "error"
    /\ ocrResult.error = <<"deepseek_failed", "insufficient_content">>

\* C33: the tier-2 gate rejects a text for garbage exactly when the text
\* holds 3 or more bursts of the symbols; a text with fewer bursts passes
\* the garbage rule.
C33_GarbageNeedsThreeBursts ==
    (Tier2Gated /\ Trimmed(ocrOllama.text) >= DeepseekMinLen)
        => (GarbageRejected <=> ocrOllama.text.bursts >= 3)

\* C34: the tier-2 gate rejects every output whose trimmed length is below
\* 20, with the insufficient-content reason even when the text also holds
\* a garbage burst.
C34_EmptinessBeforeGarbage ==
    (Tier2Gated /\ Trimmed(ocrOllama.text) < DeepseekMinLen)
        => InsufficientRejected

C34_Witness ==
    /\ Tier2Gated
    /\ ocrOllama.text = Text(10, 0, 1)
    /\ InsufficientRejected


\* The brace pair of the response does not parse and its bracket pair does.
OnlyBracketsParse ==
    /\ ResponseHandled
    /\ BraceSlice(rjContent) # <<>> /\ ~json_loads(BraceSlice(rjContent))
    /\ BracketSlice(rjContent) # <<>> /\ json_loads(BracketSlice(rjContent))

\* C35: when the substring from the first '{' to the last '}' does not parse
\* and the substring from the first '[' to the last ']' does, repair returns
\* that array and not the empty record.
C35_BracketFallback ==
    OnlyBracketsParse
       => /\ rjOcr = BracketSlice(rjContent)
          /\ rjLlm = Parsed(BracketSlice(rjContent))


\* process_document_sync ran for the last request or task.
SyncRan == last.served = "computed"

\* The exit paths of process_document_sync after the download.
ExitSuccess == SyncRan /\ last.run.status = "success"
ExitOcrError == SyncRan /\ last.run.ocr.result.status = "error"
ExitBadSchema ==
    /\ SyncRan /\ last.run.ocr.result.status = "success"
    /\ last.req.schema_json = "bad"
ExitExtractionError ==
    /\ SyncRan /\ last.run.status = "error"
    /\ last.run.extract = 1 /\ ~last.run.wrote

\* C36: on every exit path of process_document_sync (success, OCR error,
\* extraction error, invalid schema_json) the temporary file of the
\* downloaded document has been deleted when the function returns or raises.
C36_TempFileDeleted ==
    (ExitSuccess \/ ExitOcrError \/ ExitExtractionError \/ ExitBadSchema)
        => last.run.temp = "deleted"

C36_Witness ==
    /\ ExitBadSchema
    /\ last.run.status = "error"
    /\ last.run.extract = 0
    /\ last.run.temp = "deleted"

C36_WitnessOcrError == ExitOcrError /\ last.run.temp = "deleted"
C36_WitnessExtraction == ExitExtractionError /\ last.run.temp = "deleted"
C36_WitnessSuccess == ExitSuccess /\ last.run.temp = "deleted"


\* C37: the cache only ever holds results of runs that completed
\* successfully: a run that fails writes no cache entry, and a request
\* answered from the cache is not served a failure.
C37_CacheHoldsOnlySuccesses ==
    [][ /\ (last' # last /\ last'.served = "computed" /\ last'.status = "error")
            => cache' = cache
        /\ (last' # last /\ last'.served = "cache")
            => last'.status = "success" ]_vars


\* C38: a cache failure never fails a request: an error while reading the
\* cache is treated as a miss and the job is computed (or scheduled, in
\* webhook mode), and when the cache write raises the computed result is
\* still returned as success (pushed as the success payload by a task).
C38_CacheFailureNotFatal ==
    /\ last.read = "error"
          => /\ last.served \in {"computed", "scheduled"}
             /\ last.served = "computed" => last.run.download = 1
             /\ last.served = "scheduled" => last.status = "processing"
    /\ last.write = "error" => last.status = last.run.status
    /\ (last.write = "error" /\ last.run.data.shape = "dict")
          => /\ last.status = "success"
             /\ last.data = last.run.data
             /\ last.kind = "task" => last.payload = "success"

C38_Witness ==
    /\ last.kind = "handler"
    /\ last.read = "error" /\ last.write = "error"
    /\ last.served = "computed"
    /\ last.status = "success" /\ last.data.shape = "dict"

C38_WitnessTask ==
    /\ last.kind = "task" /\ last.write = "error"
    /\ last.status = "success" /\ last.payload = "success"


\* process_document_async ran for the last job.
TaskRan == last.kind = "task"

\* C39: for every asynchronous job exactly one terminal payload is handed to
\* send_webhook_notification: the success payload if process_document_sync
\* returned, the error payload if it raised, and never both, whatever the
\* webhook receiver answers.
C39_OneTerminalPayload ==
    TaskRan
       => /\ Len(last.sent) = 1
          /\ last.sent[1] = (IF last.run.status = "success" THEN "success" ELSE "error")

C39_Witness ==
    /\ TaskRan
    /\ last.run.status = "success"
    /\ ~last.webhook.delivered /\ last.webhook.posts = WebhookMaxRetries
    /\ last.sent = <<"success">>

C39_WitnessError ==
    /\ TaskRan
    /\ last.run.status = "error"
    /\ last.webhook.delivered
    /\ last.sent = <<"error">>

====
